---- MODULE Spec2Model ----
(***************************************************************************)
(* Model of the incidence-registration application (app_optimized.py):     *)
(* the per-session entry collection, its mutation handlers (bulk add,      *)
(* single add, page edit, delete-selected, delete-all), the paginated      *)
(* table with its render cache, and the export section.                    *)
(*                                                                         *)
(* Python values are modelled as follows.  A text field of an Incidencia   *)
(* is a TLA+ string.  A float field is an integer (all amounts used here   *)
(* are whole numbers).  A cell of the edited table is a tagged record:     *)
(* [t |-> "none"] (None), [t |-> "nan"] (float NaN), [t |-> "str", v] or   *)
(* [t |-> "num", v].  String functions (strip, lower, replace) are tables  *)
(* over the finite universe of strings the model uses.                     *)
(***************************************************************************)
EXTENDS Integers, Sequences, FiniteSets, TLC

VARIABLES
    incidencias,          \* st.session_state.incidencias
    selected_jefe,        \* st.session_state.selected_jefe
    selected_imputacion,  \* st.session_state.selected_imputacion
    current_page,         \* st.session_state.current_page (widget key)
    table_cache,          \* st.session_state["table_data_hash"] / cached_df
    last_op,              \* the handler that ran last, with its inputs
    last_msg,             \* the st.warning / st.success / st.info it issued
    export_out,           \* what the export section produced in the last run
    saves,                \* number of page saves so far
    probe,                \* the arguments of a call under examination and its result
    master                \* the workbook, st.cache_data and the session's data manager

vars == <<incidencias, selected_jefe, selected_imputacion, current_page,
          table_cache, last_op, last_msg, export_out, saves, probe, master>>

----------------------------------------------------------------------------
(* Bounds of the model *)

\* the collection is capped at this many records
MaxIncidencias == 4

\* page size of the table; the code uses 50, the window arithmetic is the
\* same for every positive value and the model scales it down
ROWS_PER_PAGE == 2

\* number of page saves explored in one session
MaxSaves == 1

----------------------------------------------------------------------------
(* Sequence helpers *)

Range(s) == {s[i] : i \in DOMAIN s}

Min2(a, b) == IF a < b THEN a ELSE b

\* Python slice s[a:b] with 0-based a, b (clamped like Python does)
Slice(s, a, b) ==
    LET lo == Min2(a, Len(s))
        hi == Min2(b, Len(s))
    IN  IF hi <= lo THEN <<>> ELSE [k \in 1..(hi - lo) |-> s[lo + k]]

\* del s[idx] with a 0-based idx
DelAt(s, idx) == [k \in 1..(Len(s) - 1) |-> IF k <= idx THEN s[k] ELSE s[k + 1]]

----------------------------------------------------------------------------
(* Master data: the cleaned sheets the data manager holds for the session. *)

\* self.df_trabajadores: rows of the Trabajadores sheet after preprocessing
\* and the merge with Centros.  ANA appears twice (two preferred centres);
\* EVA's centre 104 is not an active centre, so she keeps the sheet's supervisor.
df_trabajadores ==
    << [nombre_empleado |-> "ANA",  centro_preferente |-> "101", cat_empleado |-> "ASL",
        servicio |-> "020 Limpieza", cod_reg_convenio |-> "99", nombre_jefe_ope |-> "JEFE1",
        coste_hora |-> 10],
       [nombre_empleado |-> "LUIS", centro_preferente |-> "101", cat_empleado |-> "H COC",
        servicio |-> "010 Restauracion", cod_reg_convenio |-> "77", nombre_jefe_ope |-> "JEFE1",
        coste_hora |-> 12],
       [nombre_empleado |-> "EVA",  centro_preferente |-> "104", cat_empleado |-> "COC",
        servicio |-> "010 Restauracion", cod_reg_convenio |-> "77", nombre_jefe_ope |-> "JEFE9",
        coste_hora |-> 0],
       [nombre_empleado |-> "ANA",  centro_preferente |-> "102", cat_empleado |-> "LIMP",
        servicio |-> "020 Limpieza", cod_reg_convenio |-> "88", nombre_jefe_ope |-> "JEFE1",
        coste_hora |-> 11] >>

\* data_manager.centros_lookup_df: one row per active centre (102 and 104
\* are not active, so they are not in it)
centros_lookup_df ==
    << [cod_centro_preferente |-> "101", desc_centro_preferente |-> "Centro A"] >>

\* the names of the Trabajadores sheet in Python's sorted() order
NombresOrdenados == <<"ANA", "EVA", "LUIS">>

\* build_empleado_lookup: keyed by the name column, the last row wins
build_empleado_lookup(df) ==
    LET names == {df[i].nombre_empleado : i \in DOMAIN df} \ {""}
        lastRow(n) == CHOOSE i \in DOMAIN df :
                         /\ df[i].nombre_empleado = n
                         /\ \A j \in DOMAIN df : df[j].nombre_empleado = n => j <= i
    IN  [n \in names |-> df[lastRow(n)]]

\* data_manager._empleado_lookup
empleado_lookup == build_empleado_lookup(df_trabajadores)

\* get_empleado_info returns {} for an unknown name; `if empleado_info:` is
\* then false.  HasEmpleado is that truth test.
HasEmpleado(nombre) == nombre \in DOMAIN empleado_lookup

get_empleado_info(nombre) == empleado_lookup[nombre]

\* get_employees_by_centro: sorted distinct names of the rows of that centre
get_employees_by_centro(codigo_centro) ==
    IF codigo_centro = "" THEN <<>>
    ELSE SelectSeq(NombresOrdenados,
                   LAMBDA n : \E i \in DOMAIN df_trabajadores :
                                 /\ df_trabajadores[i].nombre_empleado = n
                                 /\ df_trabajadores[i].centro_preferente = codigo_centro)

\* get_all_employees: data_manager._empleados_list
get_all_employees == NombresOrdenados

\* the description of the first lookup row with that code, "" when none
CentroNombre(codigo) ==
    IF \E i \in DOMAIN centros_lookup_df : centros_lookup_df[i].cod_centro_preferente = codigo
    THEN LET first == CHOOSE i \in DOMAIN centros_lookup_df :
                         /\ centros_lookup_df[i].cod_centro_preferente = codigo
                         /\ \A j \in DOMAIN centros_lookup_df :
                               centros_lookup_df[j].cod_centro_preferente = codigo => i <= j
         IN  centros_lookup_df[first].desc_centro_preferente
    ELSE ""

----------------------------------------------------------------------------
(* The Incidencia record *)

\* Incidencia(): the dataclass defaults
Incidencia ==
    [trabajador |-> "", imputacion_nomina |-> "", facturable |-> "", motivo |-> "",
     codigo_crown_origen |-> "", codigo_crown_destino |-> "", empresa_destino |-> "",
     incidencia_horas |-> 0, incidencia_precio |-> 0, nocturnidad_horas |-> 0,
     traslados_total |-> 0, coste_hora |-> 0, fecha |-> "", observaciones |-> "",
     centro_preferente |-> "", nombre_jefe_ope |-> "", categoria |-> "", servicio |-> "",
     cod_reg_convenio |-> "", nombre_crown_destino |-> ""]

\* a field that is None is modelled by this value
None == "<None>"

\* is_valid as its docstring lists the required fields (billing period and
\* notes included)
is_valid_docstring(inc) ==
    \A field \in {inc.trabajador, inc.imputacion_nomina, inc.facturable, inc.motivo,
                  inc.codigo_crown_destino, inc.fecha, inc.observaciones} :
        field # None /\ field # ""

\* Incidencia.is_valid
is_valid(inc) ==
    \A field \in {inc.trabajador, inc.facturable, inc.motivo,
                  inc.codigo_crown_destino, inc.fecha} :
        field # None /\ field # ""

\* _actualizar_datos_empleado taking the origin from its crown_origen argument
actualizar_datos_empleado_origen_arg(incidencia, nombre_trabajador, jefe, crown_origen, crown_destino) ==
    IF nombre_trabajador # "" /\ HasEmpleado(nombre_trabajador)
    THEN LET empleado_info == get_empleado_info(nombre_trabajador)
             centro_pref   == empleado_info.centro_preferente
             destino       == IF crown_destino # "" THEN crown_destino ELSE centro_pref
         IN  [incidencia EXCEPT
                 !.trabajador           = empleado_info.nombre_empleado,
                 !.categoria            = empleado_info.cat_empleado,
                 !.servicio             = empleado_info.servicio,
                 !.centro_preferente    = centro_pref,
                 !.codigo_crown_origen  = crown_origen,
                 !.cod_reg_convenio     = empleado_info.cod_reg_convenio,
                 !.nombre_jefe_ope      = empleado_info.nombre_jefe_ope,
                 !.codigo_crown_destino = destino,
                 !.nombre_crown_destino = CentroNombre(destino),
                 !.coste_hora           = empleado_info.coste_hora]
    ELSE incidencia

\* _actualizar_datos_empleado: fills the derived fields from the employee's
\* master record; does nothing when the name is empty or unknown
actualizar_datos_empleado(incidencia, nombre_trabajador, jefe, crown_origen, crown_destino) ==
    IF nombre_trabajador # "" /\ HasEmpleado(nombre_trabajador)
    THEN LET empleado_info == get_empleado_info(nombre_trabajador)
             centro_pref   == empleado_info.centro_preferente
             destino       == IF crown_destino # "" THEN crown_destino ELSE centro_pref
         IN  [incidencia EXCEPT
                 !.trabajador           = empleado_info.nombre_empleado,
                 !.categoria            = empleado_info.cat_empleado,
                 !.servicio             = empleado_info.servicio,
                 !.centro_preferente    = centro_pref,
                 !.codigo_crown_origen  = centro_pref,
                 !.cod_reg_convenio     = empleado_info.cod_reg_convenio,
                 !.nombre_jefe_ope      = empleado_info.nombre_jefe_ope,
                 !.codigo_crown_destino = destino,
                 !.nombre_crown_destino = CentroNombre(destino),
                 !.coste_hora           = empleado_info.coste_hora]
    ELSE incidencia

----------------------------------------------------------------------------
(* Cells of the table shown for editing *)

CNone == [t |-> "none"]
CStr(v) == [t |-> "str", v |-> v]
CNum(v) == [t |-> "num", v |-> v]

\* the columns of the data editor that _process_page_changes maps to fields
\* (column_to_field_map restricted to the columns left after df.drop)
TextColumns == {"Trabajador", "Facturable", "Motivo", "Empresa_Destino", "Observaciones"}
CodeColumns == {"Codigo_Crown_Origen", "Codigo_Crown_Destino"}
NumericColumns == {"Incidencia_horas", "Incidencia_precio", "Nocturnidad_horas", "Traslados_total"}
Columns == TextColumns \cup CodeColumns \cup NumericColumns \cup {"Fecha"}

\* str.strip() on the strings of the model
Strip(s) ==
    CASE s = " 01/02 " -> "01/02"
      [] s = " "       -> ""
      [] s = " nan "   -> "nan"
      [] OTHER         -> s

\* str.lower() on the strings of the model, as far as the null test needs it
Lower(s) ==
    CASE s \in {"nan", "NaN", "NAN"}    -> "nan"
      [] s \in {"none", "None", "NONE"} -> "none"
      [] OTHER                          -> s

\* str.replace('.0', '') on the strings of the model
ReplaceDotZero(s) ==
    CASE s = "101.0" -> "101"
      [] OTHER       -> s

\* float(s) of a string: the numeric strings of the model
ParsesAsFloat(s) == s \in {"2", "3"}
FloatOf(s) == IF s = "2" THEN 2 ELSE 3

\* lines 1522-1526: numeric fields
coerce_numeric(value) ==
    CASE value.t = "none" -> 0
      [] value.t = "num"  -> value.v
      [] value.t = "str"  -> IF value.v = "" THEN 0
                             ELSE IF ParsesAsFloat(value.v) THEN FloatOf(value.v)
                             ELSE 0

\* lines 1527-1535: centre-code fields
coerce_code(value) ==
    CASE value.t = "none" -> ""
      [] value.t = "str"  -> IF value.v \in {"", "nan", "None"} THEN ""
                             ELSE Strip(ReplaceDotZero(value.v))

\* lines 1536-1541: the date field
coerce_fecha(value) ==
    CASE value.t = "none" -> ""
      [] value.t = "str"  -> Strip(value.v)

\* lines 1549-1555: every other text field
coerce_text(value) ==
    CASE value.t = "none" -> ""
      [] value.t = "str"  -> IF Lower(value.v) \in {"nan", "none", ""} THEN ""
                             ELSE Strip(value.v)

\* column_to_field_map and the per-field coercion of one edited row:
\* filtered_data as a function of the row's cells
filtered_data(cells) ==
    [trabajador           |-> coerce_text(cells["Trabajador"]),
     facturable           |-> coerce_text(cells["Facturable"]),
     motivo               |-> coerce_text(cells["Motivo"]),
     empresa_destino      |-> coerce_text(cells["Empresa_Destino"]),
     observaciones        |-> coerce_text(cells["Observaciones"]),
     codigo_crown_origen  |-> coerce_code(cells["Codigo_Crown_Origen"]),
     codigo_crown_destino |-> coerce_code(cells["Codigo_Crown_Destino"]),
     incidencia_horas     |-> coerce_numeric(cells["Incidencia_horas"]),
     incidencia_precio    |-> coerce_numeric(cells["Incidencia_precio"]),
     nocturnidad_horas    |-> coerce_numeric(cells["Nocturnidad_horas"]),
     traslados_total      |-> coerce_numeric(cells["Traslados_total"]),
     fecha                |-> coerce_fecha(cells["Fecha"])]

\* Series.astype(str).replace('nan', '').replace('None', '') of a text column
DisplayText(s) == IF s \in {"nan", "None"} THEN "" ELSE s

\* Incidencia.to_dict followed by the column clean-up of _render_table_page:
\* the row of the data editor for one record (Borrar unchecked)
to_dict(inc) ==
    [Borrar |-> FALSE,
     cells  |-> [c \in Columns |->
        CASE c = "Trabajador"           -> CStr(inc.trabajador)
          [] c = "Facturable"           -> CStr(inc.facturable)
          [] c = "Motivo"               -> CStr(inc.motivo)
          [] c = "Empresa_Destino"      -> CStr(inc.empresa_destino)
          [] c = "Observaciones"        -> CStr(DisplayText(inc.observaciones))
          [] c = "Codigo_Crown_Origen"  -> CStr(DisplayText(inc.codigo_crown_origen))
          [] c = "Codigo_Crown_Destino" -> CStr(DisplayText(inc.codigo_crown_destino))
          [] c = "Incidencia_horas"     -> CNum(inc.incidencia_horas)
          [] c = "Incidencia_precio"    -> CNum(inc.incidencia_precio)
          [] c = "Nocturnidad_horas"    -> CNum(inc.nocturnidad_horas)
          [] c = "Traslados_total"      -> CNum(inc.traslados_total)
          [] c = "Fecha"                -> CStr(DisplayText(inc.fecha))]]

----------------------------------------------------------------------------
(* Pagination and the render cache *)

\* total_pages with the page after a full last page counted as well
total_pages_extra_page(total_incidencias) == (total_incidencias \div ROWS_PER_PAGE) + 1

\* total_pages of _render_main_table_paginated
total_pages(total_incidencias) ==
    IF total_incidencias > 0 THEN ((total_incidencias - 1) \div ROWS_PER_PAGE) + 1 ELSE 1

start_idx_of(page) == (page - 1) * ROWS_PER_PAGE

\* incidencias[start_idx:end_idx]
incidencias_pagina(incs, page) ==
    Slice(incs, start_idx_of(page), Min2(start_idx_of(page) + ROWS_PER_PAGE, Len(incs)))

\* _display_table of the pipeline module: max(1, (len(df) - 1) // rows_per_page + 1)
pipeline_total_pages(total) ==
    LET t == ((total - 1) \div ROWS_PER_PAGE) + 1 IN IF t > 1 THEN t ELSE 1

\* df.iloc[start:end] of _display_table, page_number counted from 0
pipeline_df_page(incs, page_number) ==
    Slice(incs, page_number * ROWS_PER_PAGE, page_number * ROWS_PER_PAGE + ROWS_PER_PAGE)

\* _get_incidencias_hash: md5 of the joined five fields of each page record;
\* modelled by the sequence of the five fields themselves
get_incidencias_hash(pagina) ==
    [i \in DOMAIN pagina |->
        <<pagina[i].trabajador, pagina[i].motivo, pagina[i].fecha,
          pagina[i].incidencia_horas, pagina[i].incidencia_precio>>]

NoCache == [present |-> FALSE]

\* lines 1284-1316: the cache after rendering the page (rebuilt on a hash miss)
render_cache(cache, pagina) ==
    LET current_hash == get_incidencias_hash(pagina)
    IN  IF cache.present /\ cache.hash = current_hash
        THEN cache
        ELSE [present |-> TRUE, hash |-> current_hash,
              df |-> [i \in DOMAIN pagina |-> to_dict(pagina[i])]]

\* the table of a run of the script: nothing is rendered (and the cache is
\* left alone) while the collection is empty
cache_after_render(cache, incs, page) ==
    IF incs = <<>> THEN cache ELSE render_cache(cache, incidencias_pagina(incs, page))

----------------------------------------------------------------------------
(* Night-rate tariff lookup *)

\* a cell of a master sheet as pandas hands it over: NaN (CNone), a text
\* (CStr), a float (CNum) or an integer (CInt); a value passed to a query is
\* one of these as well, None counting as CNone
CInt(v) == [t |-> "int", v |-> v]

\* a field of a record as a query argument
AsCell(s) == IF s = None THEN CNone ELSE CStr(s)

\* pd.notna(x)
notna(x) == x.t # "none"

\* the numeric texts of the model and the number float() reads from them
NumericStrings ==
    {<<"77", 77>>, <<"88", 88>>, <<"99", 99>>, <<"99.0", 99>>, <<"9.9E+1", 99>>,
     <<"101", 101>>, <<"101.0", 101>>, <<"1.01E+2", 101>>}

\* str(n) of an integer
DecimalStr(n) ==
    CASE n = 77  -> "77"
      [] n = 88  -> "88"
      [] n = 99  -> "99"
      [] n = 101 -> "101"
      [] n = 2   -> "2"
      [] n = 3   -> "3"

\* str(x) of a float with an integral value
FloatRepr(n) ==
    CASE n = 77  -> "77.0"
      [] n = 88  -> "88.0"
      [] n = 99  -> "99.0"
      [] n = 101 -> "101.0"
      [] n = 2   -> "2.0"
      [] n = 3   -> "3.0"

\* str(x)
PyStr(x) ==
    CASE x.t = "none" -> "nan"
      [] x.t = "str"  -> x.v
      [] x.t = "num"  -> FloatRepr(x.v)
      [] x.t = "int"  -> DecimalStr(x.v)

\* float(x): ok is FALSE where float() raises ValueError; NaN is not passed in
float_of(x) ==
    CASE x.t \in {"num", "int"} -> [ok |-> TRUE, v |-> x.v]
      [] x.t = "str" -> IF \E q \in NumericStrings : q[1] = x.v
                        THEN [ok |-> TRUE, v |-> (CHOOSE q \in NumericStrings : q[1] = x.v)[2]]
                        ELSE [ok |-> FALSE]

\* rows of the tarifas_incidencias sheet: Descripcion, cod_convenio, tarifa_noct
df_tarifas ==
    << [Descripcion |-> CStr("asl"),  cod_convenio |-> CNum(99), tarifa_noct |-> CNum(2)],
       [Descripcion |-> CStr("COC"),  cod_convenio |-> CStr("77"), tarifa_noct |-> CNum(4)],
       [Descripcion |-> CStr("COC"),  cod_convenio |-> CInt(77), tarifa_noct |-> CNum(3)] >>

\* str(x).strip().upper() on the category strings of the model
StripUpper(s) ==
    CASE s \in {"asl", " asl "}     -> "ASL"
      [] s \in {"h ASL", "h asl"}   -> "H ASL"
      [] s = "nan"                  -> "NAN"
      [] OTHER                      -> s

\* categoria_norm.split(' ', 1): drop a one-letter first token
DropPrefix(s) ==
    CASE s = "H COC" -> "COC"
      [] s = "H ASL" -> "ASL"
      [] OTHER       -> s

\* lines 749-755 (and 207-215 for a table row): str(int(float(x))), or the
\* stripped text where that raises; "" for a missing or empty code
ConvenioNorm(x) ==
    IF notna(x) /\ x # CStr("")
    THEN IF float_of(x).ok THEN DecimalStr(float_of(x).v) ELSE Strip(PyStr(x))
    ELSE ""

\* the normalized key of row i of the sheet, and whether the row is stored:
\* float(tarifa_noct) must not raise and must not be NaN
tarifa_key(row) == <<StripUpper(PyStr(row.Descripcion)), ConvenioNorm(row.cod_convenio)>>

tarifa_stored(row) ==
    /\ tarifa_key(row)[1] # ""
    /\ tarifa_key(row)[2] # ""
    /\ notna(row.tarifa_noct)
    /\ float_of(row.tarifa_noct).ok

\* build_tarifa_lookup: set of <<key, rate>>, a later row replacing an earlier
\* one with the same key
build_tarifa_lookup(df) ==
    LET last(i) == \A j \in DOMAIN df :
                      (tarifa_stored(df[j]) /\ tarifa_key(df[j]) = tarifa_key(df[i])) => j <= i
    IN  {<<tarifa_key(df[i]), float_of(df[i].tarifa_noct).v>> :
            i \in {k \in DOMAIN df : tarifa_stored(df[k]) /\ last(k)}}

tarifa_lookup == build_tarifa_lookup(df_tarifas)

\* dict.get(key, 0.0)
lookup_get(lookup, k) ==
    IF \E e \in lookup : e[1] = k THEN (CHOOSE e \in lookup : e[1] = k)[2] ELSE 0

\* the query with the bare except of lines 752-753 left out: the ValueError of
\* float() reaches the caller
precio_nocturnidad_no_except(lookup, categoria, cod_convenio) ==
    LET categoria_norm == IF notna(categoria) THEN DropPrefix(StripUpper(PyStr(categoria))) ELSE ""
        convenio_norm  == ConvenioNorm(cod_convenio)
    IN  IF notna(cod_convenio) /\ cod_convenio # CStr("") /\ ~float_of(cod_convenio).ok
        THEN [raises |-> "ValueError", value |-> 0]
        ELSE IF categoria_norm = "" \/ convenio_norm = "" THEN [raises |-> "", value |-> 0]
        ELSE [raises |-> "", value |-> lookup_get(lookup, <<categoria_norm, convenio_norm>>)]

\* the body of get_precio_nocturnidad over a given lookup: how the call ends
\* (no exception leaves it) and the rate it returns
precio_nocturnidad(lookup, categoria, cod_convenio) ==
    LET categoria_norm == IF notna(categoria) THEN DropPrefix(StripUpper(PyStr(categoria))) ELSE ""
        convenio_norm  == ConvenioNorm(cod_convenio)
    IN  IF categoria_norm = "" \/ convenio_norm = "" THEN [raises |-> "", value |-> 0]
        ELSE [raises |-> "", value |-> lookup_get(lookup, <<categoria_norm, convenio_norm>>)]

\* OptimizedDataManager.get_precio_nocturnidad
get_precio_nocturnidad(categoria, cod_convenio) ==
    precio_nocturnidad(tarifa_lookup, AsCell(categoria), AsCell(cod_convenio)).value

\* _build_tarifa_lookup of the pipeline module (its columns Categoria, Regimen,
\* Precio_Nocturnidad read from the same three cells): str() makes every
\* category and code present, float() of the rate is tried
pipeline_build_tarifa_lookup(df) ==
    LET key(i)    == <<StripUpper(PyStr(df[i].Descripcion)), Strip(PyStr(df[i].cod_convenio))>>
        stored(i) == notna(df[i].tarifa_noct) /\ float_of(df[i].tarifa_noct).ok
        last(i)   == \A j \in DOMAIN df : (stored(j) /\ key(j) = key(i)) => j <= i
    IN  {<<key(i), float_of(df[i].tarifa_noct).v>> :
            i \in {k \in DOMAIN df : stored(k) /\ last(k)}}

\* get_precio_nocturnidad of the pipeline module
pipeline_precio_nocturnidad(lookup, categoria, cod_convenio) ==
    LET categoria_norm == IF notna(categoria) THEN StripUpper(PyStr(categoria)) ELSE ""
        convenio_norm  == IF notna(cod_convenio) THEN Strip(PyStr(cod_convenio)) ELSE ""
    IN  IF categoria_norm = "" \/ convenio_norm = "" THEN [raises |-> "", value |-> 0]
        ELSE [raises |-> "", value |-> lookup_get(lookup, <<categoria_norm, convenio_norm>>)]

\* str(x).replace('.', '').replace('-', '').isdigit() on the strings of the model
IsDigitsWithoutDots(s) == s \in {"77", "88", "99", "99.0", "101", "101.0", "77.0", "88.0"}

\* preprocess_centros, lines 379-381 (the same lambda at 323-325 and 655-657):
\* str(int(float(x))) if pd.notna(x) and the digit test passes, else str(x)
normalize_centro(x) ==
    IF notna(x) /\ IsDigitsWithoutDots(PyStr(x))
    THEN DecimalStr(float_of(x).v)
    ELSE PyStr(x)

----------------------------------------------------------------------------
(* Loading the master sheets *)

\* a sheet of the workbook: whether the workbook has it, its column names and
\* its rows (a cell of an absent column is never read)
EmptyFrame == [columns |-> {}, rows |-> <<>>]

\* _load_single_sheet: pd.read_excel, or st.error and an empty frame when it
\* raises (the sheet is not in the workbook)
load_single_sheet(sheet) ==
    IF sheet.present
    THEN [error |-> FALSE, df |-> [columns |-> sheet.columns, rows |-> sheet.rows]]
    ELSE [error |-> TRUE, df |-> EmptyFrame]

\* the list of line 386
jefes_excluidos == {CStr("Angel Alcalde"), CStr("Esther Martin Gonzalez"), CStr("Julio")}

\* preprocess_centros without the filter on fecha_baja_centro
preprocess_centros_keep_inactive(df) ==
    IF df.rows = <<>> \/ df.columns = {}
    THEN [raises |-> "", warning |-> FALSE, df |-> EmptyFrame]
    ELSE IF "cod_centro_preferente" \notin df.columns
    THEN [raises |-> "", warning |-> TRUE, df |-> EmptyFrame]
    ELSE IF "nombre_jefe_ope" \notin df.columns
    THEN [raises |-> "KeyError", warning |-> FALSE, df |-> EmptyFrame]
    ELSE LET has_code(r) == notna(r.cod_centro_preferente) /\ r.cod_centro_preferente # CStr("")
             allowed(r)  == r.nombre_jefe_ope \notin jefes_excluidos
             kept        == SelectSeq(SelectSeq(df.rows, has_code), allowed)
         IN  [raises |-> "", warning |-> FALSE,
              df |-> [columns |-> (df.columns \ {"fecha_baja_centro"}) \cup {"codigo_centro"},
                      rows |-> [i \in DOMAIN kept |->
                                  [cod_centro_preferente |-> CStr(normalize_centro(kept[i].cod_centro_preferente)),
                                   codigo_centro |-> CStr(normalize_centro(kept[i].cod_centro_preferente)),
                                   nombre_jefe_ope |-> kept[i].nombre_jefe_ope]]]]

\* preprocess_centros: how the call ends, whether st.warning was shown, and
\* the cleaned frame. df['nombre_jefe_ope'] at line 386 is read before the
\* test of line 392, so a frame without that column ends in a KeyError
preprocess_centros(df) ==
    IF df.rows = <<>> \/ df.columns = {}
    THEN [raises |-> "", warning |-> FALSE, df |-> EmptyFrame]
    ELSE IF "cod_centro_preferente" \notin df.columns
    THEN [raises |-> "", warning |-> TRUE, df |-> EmptyFrame]
    ELSE IF "nombre_jefe_ope" \notin df.columns
    THEN [raises |-> "KeyError", warning |-> FALSE, df |-> EmptyFrame]
    ELSE LET has_code(r) == notna(r.cod_centro_preferente) /\ r.cod_centro_preferente # CStr("")
             active(r)   == "fecha_baja_centro" \in df.columns => ~notna(r.fecha_baja_centro)
             allowed(r)  == r.nombre_jefe_ope \notin jefes_excluidos
             kept        == SelectSeq(SelectSeq(SelectSeq(df.rows, has_code), active), allowed)
         IN  [raises |-> "", warning |-> FALSE,
              df |-> [columns |-> (df.columns \ {"fecha_baja_centro"}) \cup {"codigo_centro"},
                      rows |-> [i \in DOMAIN kept |->
                                  [cod_centro_preferente |-> CStr(normalize_centro(kept[i].cod_centro_preferente)),
                                   codigo_centro |-> CStr(normalize_centro(kept[i].cod_centro_preferente)),
                                   nombre_jefe_ope |-> kept[i].nombre_jefe_ope]]]]

\* OptimizedDataManager.df_centros: the sheet loaded and cleaned; `surfaced`
\* is whether st.error or st.warning was shown
load_centros(sheet) ==
    LET loaded  == load_single_sheet(sheet)
        cleaned == preprocess_centros(loaded.df)
    IN  [raises |-> cleaned.raises, surfaced |-> loaded.error \/ cleaned.warning,
         empty |-> cleaned.df.rows = <<>>, df |-> cleaned.df]

\* OptimizedDataManager.df_trabajadores followed by build_empleado_lookup, for
\* a cleaned Centers frame that has the three columns of the merge: the
\* lookup is empty unless the sheet has rows and a nombre_empleado column
load_trabajadores(sheet) ==
    LET loaded == load_single_sheet(sheet)
    IN  [raises |-> "", surfaced |-> loaded.error,
         empty |-> loaded.df.rows = <<>> \/ "nombre_empleado" \notin loaded.df.columns]

\* build_tarifa_lookup from the sheet: empty unless the sheet has the three
\* columns and a row that is stored
load_tarifas(sheet) ==
    LET loaded == load_single_sheet(sheet)
    IN  [raises |-> "", surfaced |-> loaded.error,
         empty |-> \/ ~ ({"Descripcion", "cod_convenio", "tarifa_noct"} \subseteq loaded.df.columns)
                   \/ build_tarifa_lookup(loaded.df.rows) = {}]

\* lines 1700-1708 and the loop after them: motivo_to_cuenta is empty unless
\* the sheet has rows and both columns; any exception is swallowed
load_cuenta_motivos(sheet) ==
    LET loaded == load_single_sheet(sheet)
    IN  [raises |-> "", surfaced |-> loaded.error,
         empty |-> loaded.df.rows = <<>> \/ ~ ({"Motivo", "desc_cuenta"} \subseteq loaded.df.columns)]

----------------------------------------------------------------------------
(* The workbook, its hash and the cached master data *)

\* data/maestros.xlsx: not there, there but open() raises, or one of two
\* contents
Workbooks == {"absent", "unreadable", "v1", "v2"}

\* _get_file_hash (md5 taken as injective on the two contents)
get_file_hash(file) ==
    CASE file = "absent"     -> "FILE_NOT_FOUND"
      [] file = "unreadable" -> "ERROR_HASH"
      [] file = "v1"         -> "md5(v1)"
      [] file = "v2"         -> "md5(v2)"

\* what the loaders derive from the workbook as it is now: its content, or
\* empty frames when pd.read_excel raises
read_workbook(file) == IF file \in {"absent", "unreadable"} THEN "empty" ELSE file

\* a function under @st.cache_data called with file_hash: the stored value
\* when the key is known, else computed from the workbook
cached_load(cache_data, file_hash, file) ==
    IF \E e \in cache_data : e[1] = file_hash
    THEN (CHOOSE e \in cache_data : e[1] = file_hash)[2]
    ELSE read_workbook(file)

NoManager == [file_hash |-> "", lookups |-> ""]

\* OptimizedIncidenciasApp.__init__ on a fresh session_state: the data
\* manager is constructed (hash, then the cached loaders) and kept
new_data_manager(m) ==
    LET h    == get_file_hash(m.file)
        data == cached_load(m.cache_data, h, m.file)
    IN  [file |-> m.file, cache_data |-> m.cache_data \cup {<<h, data>>},
         data_manager |-> [file_hash |-> h, lookups |-> data]]

\* run(): what the lookups served in this run are derived from ("error" when
\* the run stops at the FILE_NOT_FOUND message)
serve(m) ==
    IF m.data_manager.file_hash = "FILE_NOT_FOUND" THEN "error" ELSE m.data_manager.lookups

\* the master data of a session started on the first content
InitialMaster == new_data_manager([file |-> "v1", cache_data |-> {}, data_manager |-> NoManager])

----------------------------------------------------------------------------
(* Export section *)

RECURSIVE SumSeq(_)
SumSeq(s) == IF s = <<>> THEN 0 ELSE Head(s) + SumSeq(Tail(s))

\* excel_data when nothing is written
NoBytes == [bytes |-> FALSE]

\* the list comprehension without its is_valid() filter
incidencias_validas_all(incs) == incs

\* [inc for inc in incidencias if inc.is_valid()]
incidencias_validas(incs) == SelectSeq(incs, is_valid)

\* one element of `data` in export_to_excel: the columns taken from a record
export_data(inc) ==
    [Jefe_de_Operaciones |-> inc.nombre_jefe_ope,
     Mes_imputacion      |-> inc.imputacion_nomina,
     Facturable          |-> inc.facturable,
     Servicio            |-> inc.servicio,
     Motivo              |-> inc.motivo,
     Trabajador          |-> inc.trabajador,
     Empresa_Destino     |-> inc.empresa_destino,
     Codigo_Crown_Destino |-> inc.codigo_crown_destino,
     Centro_Destino      |-> inc.nombre_crown_destino,
     Categoria           |-> inc.categoria,
     Cuantia             |-> inc.incidencia_horas,
     Precio              |-> inc.incidencia_precio,
     Cuantia_nocturnidad |-> inc.nocturnidad_horas,
     Precio_nocturnidad  |-> get_precio_nocturnidad(inc.categoria, inc.cod_reg_convenio),
     Horas_traslado      |-> inc.traslados_total,
     coste_hora          |-> inc.coste_hora,
     Empresa_Origen      |-> inc.centro_preferente,
     Codigo_Crown_Origen |-> inc.codigo_crown_origen,
     Fecha               |-> inc.fecha,
     Observaciones       |-> inc.observaciones,
     cod_reg_convenio    |-> inc.cod_reg_convenio]

\* the cuenta_motivos sheet of the session's workbook
df_cuenta_motivos ==
    [present |-> TRUE, columns |-> {"Motivo", "desc_cuenta"},
     rows |-> <<[Motivo |-> CStr("Eventos"), desc_cuenta |-> CStr("72 incentivos")],
                [Motivo |-> CStr("Absentismo"), desc_cuenta |-> CStr("73 plus sustitucion")]>>]

\* the if/elif chain of _add_calculated_columns over str(desc_cuenta):
\* '70/71' anywhere first, then the prefixes 73, 72, 74; None otherwise
codigo_cuenta(desc_cuenta) ==
    LET d == IF desc_cuenta = CNone THEN "" ELSE PyStr(desc_cuenta)
    IN  CASE d \in {"70/71 festivos", "73 y 70/71"} -> "70_71"
          [] d = "73 plus sustitucion"             -> "73"
          [] d = "72 incentivos"                   -> "72"
          [] d = "74 plus nocturnidad"             -> "74"
          [] OTHER                                 -> None

\* motivo_to_cuenta: the sheet as _load_single_sheet returns it, an empty
\* table when it has no rows; a row without a code adds nothing, a later row
\* with the same Motivo replaces an earlier one.  A sheet lacking one of the
\* two columns gets that column as NaN and maps no string
motivo_to_cuenta(sheet) ==
    LET df   == load_single_sheet(sheet).df
        rows == IF {"Motivo", "desc_cuenta"} \subseteq df.columns THEN df.rows ELSE <<>>
        key(r) == IF r.Motivo = CNone THEN CStr("") ELSE r.Motivo
        coded == {i \in DOMAIN rows : codigo_cuenta(rows[i].desc_cuenta) # None}
        last(k) == CHOOSE i \in coded : key(rows[i]) = k
                                        /\ \A j \in coded : key(rows[j]) = k => j <= i
    IN  [k \in {key(rows[i]) : i \in coded} |-> codigo_cuenta(rows[last(k)].desc_cuenta)]

\* _add_calculated_columns writing the amount of an unmapped Motivo into the
\* 70_71 column
add_calculated_columns_otros_festivos(row, sheet) ==
    LET cuentas          == motivo_to_cuenta(sheet)
        cuenta_codigo    == IF CStr(row.Motivo) \in DOMAIN cuentas
                            THEN cuentas[CStr(row.Motivo)] ELSE "Otros"
        total_incidencia == row.Precio * row.Cuantia
    IN  row @@ [73_plus_sustitucion |-> IF cuenta_codigo = "73" THEN total_incidencia ELSE 0,
                72_incentivos       |-> IF cuenta_codigo = "72" THEN total_incidencia ELSE 0,
                70_71_festivos      |-> IF cuenta_codigo \in {"70_71", "Otros"}
                                        THEN total_incidencia ELSE 0,
                74_plus_nocturnidad |-> 0]

\* _add_calculated_columns: cuenta_codigo ('Otros' for a Motivo that is not
\* mapped), the three account columns, and 74_plus_nocturnidad at 0
add_calculated_columns(row, sheet) ==
    LET cuentas          == motivo_to_cuenta(sheet)
        cuenta_codigo    == IF CStr(row.Motivo) \in DOMAIN cuentas
                            THEN cuentas[CStr(row.Motivo)] ELSE "Otros"
        total_incidencia == row.Precio * row.Cuantia
    IN  row @@ [73_plus_sustitucion |-> IF cuenta_codigo = "73" THEN total_incidencia ELSE 0,
                72_incentivos       |-> IF cuenta_codigo = "72" THEN total_incidencia ELSE 0,
                70_71_festivos      |-> IF cuenta_codigo = "70_71" THEN total_incidencia ELSE 0,
                74_plus_nocturnidad |-> 0]

\* _add_final_calculations: the night column and Coste_total (kept times
\* 10000); every column it asks for is in the frame
add_final_calculations(row) ==
    LET coste_incidencias == row.Cuantia * row.Precio
        coste_nocturnidad == row.Cuantia_nocturnidad * row.Precio_nocturnidad
    IN  [row EXCEPT !.74_plus_nocturnidad = row.Precio_nocturnidad * row.Cuantia_nocturnidad]
            @@ [Coste_total_x10000 |-> (coste_incidencias + coste_nocturnidad) * 13195
                                           + row.Horas_traslado * 10000]

\* the row written for a record when the workbook's cuenta_motivos sheet is
\* `sheet`
export_row_with(inc, sheet) ==
    add_final_calculations(add_calculated_columns(export_data(inc), sheet))

\* the row written for a record in the session
export_row(inc) == export_row_with(inc, df_cuenta_motivos)

\* export_to_excel without the early return: a workbook even when no record
\* is valid
export_to_excel_empty_workbook(incs) ==
    LET validas == incidencias_validas(incs)
    IN  [bytes |-> TRUE, rows |-> [i \in DOMAIN validas |-> export_row(validas[i])]]

\* OptimizedExportManager.export_to_excel: None when no record is valid,
\* else the workbook, one row per valid record
export_to_excel(incs) ==
    LET validas == incidencias_validas(incs)
    IN  IF validas = <<>> THEN NoBytes
        ELSE [bytes |-> TRUE, rows |-> [i \in DOMAIN validas |-> export_row(validas[i])]]

\* _calculate_metrics_optimized with the multiplier applied to the transfers
\* as well
calculate_metrics_ss_on_transfers(validas) ==
    LET total_incidencias == SumSeq([i \in DOMAIN validas |->
                                validas[i].incidencia_precio * validas[i].incidencia_horas])
        total_nocturnidad == SumSeq([i \in DOMAIN validas |->
                                get_precio_nocturnidad(validas[i].categoria, validas[i].cod_reg_convenio)
                                    * validas[i].nocturnidad_horas])
        total_traslados   == SumSeq([i \in DOMAIN validas |->
                                validas[i].traslados_total * validas[i].coste_hora])
    IN  [total_incidencias |-> total_incidencias,
         total_nocturnidad |-> total_nocturnidad,
         total_traslados   |-> total_traslados,
         total_simple      |-> total_incidencias + total_nocturnidad + total_traslados,
         total_con_ss_x10000 |-> (total_incidencias + total_nocturnidad + total_traslados) * 13195]

\* _calculate_metrics_optimized of the pipeline module, over its own field
\* names; the night rates come from the data manager's table, the multiplier
\* from the configuration (here times 10000), and the transfers are summed as
\* they are
pipeline_calculate_metrics(validas, lookup, ss_multiplier_x10000) ==
    LET total_incidencias == SumSeq([i \in DOMAIN validas |->
                                validas[i].incidencia_precio * validas[i].horas_base])
        total_nocturnidad == SumSeq([i \in DOMAIN validas |->
                                pipeline_precio_nocturnidad(lookup,
                                    AsCell(validas[i].categoria), AsCell(validas[i].cod_reg_convenio)).value
                                    * validas[i].horas_nocturnidad])
        total_traslados   == SumSeq([i \in DOMAIN validas |-> validas[i].traslados_total])
    IN  [total_incidencias |-> total_incidencias,
         total_nocturnidad |-> total_nocturnidad,
         total_traslados   |-> total_traslados,
         total_simple      |-> total_incidencias + total_nocturnidad + total_traslados,
         total_con_ss_x10000 |-> (total_incidencias + total_nocturnidad) * ss_multiplier_x10000
                                     + total_traslados * 10000]

\* _calculate_metrics_optimized (amounts; total_con_ss is kept times 10000)
calculate_metrics_optimized(validas) ==
    LET total_incidencias == SumSeq([i \in DOMAIN validas |->
                                validas[i].incidencia_precio * validas[i].incidencia_horas])
        total_nocturnidad == SumSeq([i \in DOMAIN validas |->
                                get_precio_nocturnidad(validas[i].categoria, validas[i].cod_reg_convenio)
                                    * validas[i].nocturnidad_horas])
        total_traslados   == SumSeq([i \in DOMAIN validas |->
                                validas[i].traslados_total * validas[i].coste_hora])
    IN  [total_incidencias |-> total_incidencias,
         total_nocturnidad |-> total_nocturnidad,
         total_traslados   |-> total_traslados,
         total_simple      |-> total_incidencias + total_nocturnidad + total_traslados,
         total_con_ss_x10000 |-> (total_incidencias + total_nocturnidad) * 13195
                                     + total_traslados * 10000]

\* the expander of _render_export_section: for each of the first three
\* records, the fields its `if not inc.<field>` tests find empty
diagnostico(incs) ==
    LET campos == {"trabajador", "imputacion_nomina", "facturable", "motivo",
                   "codigo_crown_destino", "fecha"}
        n      == IF Len(incs) < 3 THEN Len(incs) ELSE 3
    IN  [i \in 1..n |-> {c \in campos : incs[i][c] = None \/ incs[i][c] = ""}]

\* _render_export_section storing the valid subset back into the session
render_export_section_filtering(incs) ==
    LET validas == incidencias_validas(incs)
    IN  IF incs = <<>>
        THEN [status |-> "sin_incidencias", excel_data |-> NoBytes, incidencias |-> incs]
        ELSE IF validas = <<>>
        THEN [status |-> "sin_validas", excel_data |-> NoBytes, incidencias |-> validas,
              diagnostico |-> diagnostico(incs)]
        ELSE [status |-> "listo", metricas |-> calculate_metrics_optimized(validas),
              excel_data |-> export_to_excel(validas), incidencias |-> validas]

\* _render_export_section: what the section shows, the workbook it offers
\* for download, and the session collection when it returns
render_export_section(incs) ==
    LET validas == incidencias_validas(incs)
    IN  IF incs = <<>>
        THEN [status |-> "sin_incidencias", excel_data |-> NoBytes, incidencias |-> incs]
        ELSE IF validas = <<>>
        THEN [status |-> "sin_validas", excel_data |-> NoBytes, incidencias |-> incs,
              diagnostico |-> diagnostico(incs)]
        ELSE [status |-> "listo", metricas |-> calculate_metrics_optimized(validas),
              excel_data |-> export_to_excel(validas), incidencias |-> incs]

----------------------------------------------------------------------------
(* The export section of pipeline_maestros_app.py.  Its records carry        *)
(* nombre_trabajador and fecha_incidencia; the form that creates them always  *)
(* supplies both.                                                             *)

\* Incidencia.is_valid of the pipeline: bool(nombre_trabajador and fecha_incidencia)
pipeline_is_valid(inc) ==
    /\ inc.nombre_trabajador # None /\ inc.nombre_trabajador # ""
    /\ inc.fecha_incidencia # None

\* OptimizedExportManager.export_to_excel of the pipeline: None for the empty
\* list; for any other list get_precio_nocturnidad is handed two pandas Series
\* and its `if pd.notna(categoria)` raises ValueError before a byte is written
pipeline_export_to_excel(incs) ==
    IF incs = <<>> THEN NoBytes
    ELSE [bytes |-> FALSE, raises |-> "ValueError"]

\* _render_export_section of the pipeline: returns after the warning when no
\* record is valid, else hands the valid records to export_to_excel
pipeline_render_export_section(incs) ==
    LET validas == SelectSeq(incs, pipeline_is_valid)
    IN  IF validas = <<>>
        THEN [status |-> "sin_validas", excel_data |-> NoBytes]
        ELSE [status |-> "exporta", excel_data |-> pipeline_export_to_excel(validas)]

\* records a pipeline session is asked about in the checks below
PipelineRecords ==
    [nombre_trabajador : {"", "ANA"}, fecha_incidencia : {None, "2024-01-05"}]

PipelineCollections ==
    {<<>>} \cup {<<a>> : a \in PipelineRecords}
           \cup {<<a, b>> : a \in PipelineRecords, b \in PipelineRecords}

----------------------------------------------------------------------------
(* Consolidation in pipeline_maestros_app.py.  The files are the master     *)
(* workbook ("absent", or its content), the backups written, and            *)
(* <period>/processed/maestros.xlsx; the generating script is a separate    *)
(* process that writes only inside the period folder.                       *)

\* Consolidador.crear_backup: True without a copy when there is no master,
\* else True after shutil.copy2, False when copy2 raises
crear_backup(maestros, copy2_backup) ==
    IF maestros = "absent" THEN [ok |-> TRUE, backups |-> {}]
    ELSE IF copy2_backup = "ok" THEN [ok |-> TRUE, backups |-> {maestros}]
    ELSE [ok |-> FALSE, backups |-> {}]

\* Consolidador.consolidar copying the processed workbook over the master
\* before it looks at the exit code
consolidar_copies_on_nonzero(env) ==
    LET backup == crear_backup(env.maestros, env.copy2_backup)
        processed == IF env.script_writes THEN "new" ELSE env.processed
    IN  IF ~env.periodo_folder
        THEN [exito |-> FALSE, msg |-> "no_existe_carpeta",
              maestros |-> env.maestros, backups |-> {}]
        ELSE CASE env.run = "timeout" ->
                    [exito |-> FALSE, msg |-> "timeout_excedido",
                     maestros |-> env.maestros, backups |-> backup.backups]
               [] env.run = "raises" ->
                    [exito |-> FALSE, msg |-> "error_excepcion",
                     maestros |-> env.maestros, backups |-> backup.backups]
               [] env.run = "nonzero" ->
                    [exito |-> FALSE, msg |-> "error_stderr",
                     maestros |-> IF processed = "absent" THEN env.maestros ELSE processed,
                     backups |-> backup.backups]
               [] env.run = "exit0" /\ processed = "absent" ->
                    [exito |-> FALSE, msg |-> "no_se_genero",
                     maestros |-> env.maestros, backups |-> backup.backups]
               [] env.run = "exit0" /\ processed # "absent" /\ env.copy2_maestros = "raises" ->
                    [exito |-> FALSE, msg |-> "error_excepcion",
                     maestros |-> env.maestros, backups |-> backup.backups]
               [] OTHER ->
                    [exito |-> TRUE, msg |-> "exito",
                     maestros |-> processed, backups |-> backup.backups]

\* Consolidador.consolidar: the folder test, the backup (its result is not
\* looked at), the script, and the copy of the processed workbook over the
\* master inside the try; subprocess.run either returns an exit code, times
\* out or raises, and each copy2 either completes or raises before it writes
consolidar(env) ==
    LET backup == crear_backup(env.maestros, env.copy2_backup)
        processed == IF env.script_writes THEN "new" ELSE env.processed
    IN  IF ~env.periodo_folder
        THEN [exito |-> FALSE, msg |-> "no_existe_carpeta",
              maestros |-> env.maestros, backups |-> {}]
        ELSE CASE env.run = "timeout" ->
                    [exito |-> FALSE, msg |-> "timeout_excedido",
                     maestros |-> env.maestros, backups |-> backup.backups]
               [] env.run = "raises" ->
                    [exito |-> FALSE, msg |-> "error_excepcion",
                     maestros |-> env.maestros, backups |-> backup.backups]
               [] env.run = "nonzero" ->
                    [exito |-> FALSE, msg |-> "error_stderr",
                     maestros |-> env.maestros, backups |-> backup.backups]
               [] env.run = "exit0" /\ processed = "absent" ->
                    [exito |-> FALSE, msg |-> "no_se_genero",
                     maestros |-> env.maestros, backups |-> backup.backups]
               [] env.run = "exit0" /\ processed # "absent" /\ env.copy2_maestros = "raises" ->
                    [exito |-> FALSE, msg |-> "error_excepcion",
                     maestros |-> env.maestros, backups |-> backup.backups]
               [] OTHER ->
                    [exito |-> TRUE, msg |-> "exito",
                     maestros |-> processed, backups |-> backup.backups]

\* the Consolidar button of _sidebar: on success the sheet cache is cleared
\* and a new data manager is built from the master as it is now; on failure
\* only the message is shown
sidebar_consolidar(env, session) ==
    LET r == consolidar(env)
    IN  [exito |-> r.exito, msg |-> r.msg, maestros |-> r.maestros, backups |-> r.backups,
         data_manager |-> IF r.exito THEN [lookups |-> r.maestros] ELSE session.data_manager,
         incidencias  |-> session.incidencias]

----------------------------------------------------------------------------
(* Mutation handlers of OptimizedTablaIncidencias, as functions of the      *)
(* session state they read; each returns the state it leaves behind.        *)

\* one new record for a worker: Incidencia(imputacion_nomina=...) followed by
\* _actualizar_datos_empleado
nueva_incidencia(nombre, jefe, crown_origen, crown_destino, imputacion) ==
    actualizar_datos_empleado([Incidencia EXCEPT !.imputacion_nomina = imputacion],
                              nombre, jefe, crown_origen, crown_destino)

\* _add_incidencia appending an empty record before it warns about the
\* missing name
add_incidencia_blank_row(incs, nombre_trabajador, num_rows, jefe, crown_origen, crown_destino, imputacion) ==
    IF nombre_trabajador = ""
    THEN [incidencias |-> Append(incs, [Incidencia EXCEPT !.imputacion_nomina = imputacion]),
          msg |-> "warning_sin_trabajador"]
    ELSE [incidencias |-> incs \o [k \in 1..num_rows |->
                              nueva_incidencia(nombre_trabajador, jefe, crown_origen,
                                               crown_destino, imputacion)],
          msg |-> "success_agregadas"]

\* _add_incidencia
add_incidencia(incs, nombre_trabajador, num_rows, jefe, crown_origen, crown_destino, imputacion) ==
    IF nombre_trabajador = ""
    THEN [incidencias |-> incs, msg |-> "warning_sin_trabajador"]
    ELSE [incidencias |-> incs \o [k \in 1..num_rows |->
                              nueva_incidencia(nombre_trabajador, jefe, crown_origen,
                                               crown_destino, imputacion)],
          msg |-> "success_agregadas"]

\* _add_all_employees_from_centro appending as it goes and stopping before the
\* last employee
add_all_employees_partial(incs, empleados, jefe, crown_origen, crown_destino, imputacion) ==
    IF empleados = <<>>
    THEN [incidencias |-> incs, msg |-> "warning_sin_empleados"]
    ELSE LET new_incidents == [k \in 1..(Len(empleados) - 1) |->
                                  nueva_incidencia(empleados[k], jefe, crown_origen,
                                                   crown_destino, imputacion)]
         IN  [incidencias |-> incs \o new_incidents, msg |-> "success_agregados"]

\* _add_all_employees_from_centro
add_all_employees_from_centro(incs, empleados, jefe, crown_origen, crown_destino, imputacion) ==
    IF empleados = <<>>
    THEN [incidencias |-> incs, msg |-> "warning_sin_empleados"]
    ELSE LET new_incidents == [k \in DOMAIN empleados |->
                                  nueva_incidencia(empleados[k], jefe, crown_origen,
                                                   crown_destino, imputacion)]
         IN  [incidencias |-> incs \o new_incidents, msg |-> "success_agregados"]

\* the ticked rows taken as page-local indices (start_idx not added)
indices_to_delete_local(start_idx, edited_rows) ==
    {i - 1 : i \in {k \in DOMAIN edited_rows : edited_rows[k].Borrar}}

\* the rows of edited_df whose Borrar box is ticked, as global indices
indices_to_delete(start_idx, edited_rows) ==
    {start_idx + (i - 1) : i \in {k \in DOMAIN edited_rows : edited_rows[k].Borrar}}

SetMax(S) == CHOOSE x \in S : \A y \in S : y <= x

\* for idx in sorted(indices_to_delete, reverse=True): del incidents[idx]
RECURSIVE delete_descending(_, _)
delete_descending(incs, indices) ==
    IF indices = {} THEN incs
    ELSE LET idx == SetMax(indices)
         IN  delete_descending(IF 0 <= idx /\ idx < Len(incs) THEN DelAt(incs, idx) ELSE incs,
                               indices \ {idx})

\* _delete_selected_rows without the "nothing marked" branch: an empty
\* selection is taken for the whole page and reported as a deletion
delete_selected_rows_silent(incs, start_idx, edited_rows, page, cache) ==
    LET marked == indices_to_delete(start_idx, edited_rows)
        all    == {start_idx + (i - 1) : i \in DOMAIN edited_rows}
        incidents == delete_descending(incs, IF marked = {} THEN all ELSE marked)
        total     == Len(incidents)
    IN  [incidencias  |-> incidents,
         msg          |-> "success_eliminadas",
         current_page |-> IF total > 0 /\ page > total_pages(total)
                          THEN total_pages(total) ELSE page,
         table_cache  |-> NoCache]

\* _delete_selected_rows
delete_selected_rows(incs, start_idx, edited_rows, page, cache) ==
    LET marked == indices_to_delete(start_idx, edited_rows)
    IN  IF marked = {}
        THEN [incidencias |-> incs, msg |-> "warning_sin_marcadas",
              current_page |-> page, table_cache |-> cache]
        ELSE LET incidents == delete_descending(incs, marked)
                 total     == Len(incidents)
             IN  [incidencias  |-> incidents,
                  msg          |-> "success_eliminadas",
                  current_page |-> IF total > 0 /\ page > total_pages(total)
                                   THEN total_pages(total) ELSE page,
                  table_cache  |-> NoCache]

\* the stored record rebuilt from scratch when the worker changes (hours and
\* prices back to their defaults)
edited_incidencia_reset(inc, row_data, jefe) ==
    LET fd      == filtered_data(row_data.cells)
        new_inc == [f \in DOMAIN inc |-> IF f \in DOMAIN fd THEN fd[f] ELSE inc[f]]
    IN  IF new_inc.trabajador # "" /\ new_inc.trabajador # inc.trabajador
        THEN actualizar_datos_empleado(
                 [Incidencia EXCEPT !.imputacion_nomina = inc.imputacion_nomina],
                 new_inc.trabajador, jefe, "", new_inc.codigo_crown_destino)
        ELSE new_inc

\* the record _process_page_changes stores for an unmarked page row
edited_incidencia(inc, row_data, jefe) ==
    LET fd      == filtered_data(row_data.cells)
        new_inc == [f \in DOMAIN inc |-> IF f \in DOMAIN fd THEN fd[f] ELSE inc[f]]
    IN  IF new_inc.trabajador # "" /\ new_inc.trabajador # inc.trabajador
        THEN actualizar_datos_empleado(new_inc, new_inc.trabajador, jefe, "",
                                       new_inc.codigo_crown_destino)
        ELSE new_inc

RECURSIVE process_from(_, _, _, _, _)
RECURSIVE process_from_keep_marked(_, _, _, _, _)

\* the loop of _process_page_changes carrying marked rows forward
process_from_keep_marked(incs, i, start_idx, edited_rows, jefe) ==
    IF i >= Len(incs) THEN <<>>
    ELSE LET inc  == incs[i + 1]
             rest == process_from_keep_marked(incs, i + 1, start_idx, edited_rows, jefe)
         IN  IF start_idx <= i /\ i < start_idx + ROWS_PER_PAGE
             THEN <<edited_incidencia(inc, edited_rows[(i - start_idx) + 1], jefe)>> \o rest
             ELSE <<inc>> \o rest

\* the loop of _process_page_changes over the whole collection
process_from(incs, i, start_idx, edited_rows, jefe) ==
    IF i >= Len(incs) THEN <<>>
    ELSE LET inc  == incs[i + 1]
             rest == process_from(incs, i + 1, start_idx, edited_rows, jefe)
         IN  IF start_idx <= i /\ i < start_idx + ROWS_PER_PAGE
             THEN LET row_data == edited_rows[(i - start_idx) + 1]
                  IN  IF row_data.Borrar THEN rest
                      ELSE <<edited_incidencia(inc, row_data, jefe)>> \o rest
             ELSE <<inc>> \o rest

\* changes_made of _process_page_changes: a page row was dropped, a mapped
\* field differs from the stored one, or the worker changed
changes_made(incs, start_idx, edited_rows) ==
    \E i \in 0..(Len(incs) - 1) :
        /\ start_idx <= i /\ i < start_idx + ROWS_PER_PAGE
        /\ LET row_data == edited_rows[(i - start_idx) + 1]
               fd       == filtered_data(row_data.cells)
           IN  \/ row_data.Borrar
               \/ \E k \in DOMAIN fd : incs[i + 1][k] # fd[k]

\* _process_page_changes
process_page_changes(incs, start_idx, edited_rows, jefe) ==
    [incidencias |-> process_from(incs, 0, start_idx, edited_rows, jefe),
     msg         |-> IF changes_made(incs, start_idx, edited_rows)
                     THEN "success_guardado" ELSE "info_sin_cambios",
     table_cache |-> NoCache]

----------------------------------------------------------------------------
(* Inputs of the session *)

\* imputacion_opciones of _render_header (two of the twelve months)
imputacion_opciones == {"", "01-Enero", "02-Febrero"}

\* data_manager.get_jefes(): the supervisors of the Centros sheet
jefes_list == {"JEFE1"}

\* the centre codes offered by the selectboxes ("" is the empty choice)
CentroCodes == {centros_lookup_df[i].cod_centro_preferente : i \in DOMAIN centros_lookup_df}

\* what the user types into one row of the data editor: a set of cells
\* (Fecha and Observaciones are free TextColumns, the numeric columns are
\* NumberColumns, the others offer their options only)
NoEdit == [c \in {} |-> CNone]

RowEdits ==
    {NoEdit,
     [Facturable |-> CStr("No"), Motivo |-> CStr("Eventos"), Fecha |-> CStr(" 01/02 "),
      Incidencia_horas |-> CNum(2), Incidencia_precio |-> CNum(3),
      Nocturnidad_horas |-> CNum(1), Traslados_total |-> CNum(5)],
     [Trabajador |-> CStr("EVA"), Incidencia_horas |-> CNum(2), Nocturnidad_horas |-> CNum(1)],
     [Trabajador |-> CStr("LUIS"), Incidencia_precio |-> CNum(3), Traslados_total |-> CNum(5)],
     [Trabajador |-> CNone],
     [Codigo_Crown_Destino |-> CStr("")],
     [Fecha |-> CNone, Incidencia_horas |-> CNone],
     [Fecha |-> CStr("None"), Observaciones |-> CStr(" nan ")]}

\* the row the editor returns: the shown row with the typed cells replaced
apply_edit(row, borrar, edit) ==
    [Borrar |-> borrar,
     cells  |-> [c \in Columns |-> IF c \in DOMAIN edit THEN edit[c] ELSE row.cells[c]]]

\* edited_df of one run: the shown table with the rows in `marks` ticked and
\* the rows in `targets` (one unticked row, or all of them) edited with `edit`
edited_df(df, marks, targets, edit) ==
    [i \in DOMAIN df |-> apply_edit(df[i], i \in marks,
                                    IF i \in targets THEN edit ELSE NoEdit)]

----------------------------------------------------------------------------
(* The session: one action per run of the script *)

Selected == selected_jefe # "" /\ selected_imputacion # ""

NotReached == [status |-> "no_ejecutado", excel_data |-> NoBytes]

NoProbe == [asked |-> FALSE]

Init ==
    /\ incidencias = <<>>
    /\ selected_jefe = ""
    /\ selected_imputacion = ""
    /\ current_page = 1
    /\ table_cache = NoCache
    /\ last_op = [op |-> "init"]
    /\ last_msg = ""
    /\ export_out = NotReached
    /\ saves = 0
    /\ master = InitialMaster
    /\ probe = NoProbe

\* what a run of the export section leaves on the page: its status, the
\* workbook offered for download, the metrics shown above the button when
\* there are valid records, and the diagnostic when there are records but none
\* is valid
export_shown(section) ==
    CASE section.status = "listo" ->
            [status |-> section.status, excel_data |-> section.excel_data,
             metricas |-> section.metricas]
      [] section.status = "sin_validas" ->
            [status |-> section.status, excel_data |-> section.excel_data,
             diagnostico |-> section.diagnostico]
      [] OTHER -> [status |-> section.status, excel_data |-> section.excel_data]

\* the tail of every run that gets past the selection check: the table is
\* rendered for the collection `incs`, then the export section runs
FinishRun(incs, page, cache) ==
    LET section == render_export_section(incs)
    IN  /\ incidencias' = section.incidencias
        /\ current_page' = page
        /\ table_cache' = cache_after_render(cache, incs, page)
        /\ export_out' = export_shown(section)

\* _render_header without the two assignments of an empty list: the records
\* entered under the previous selection stay in the session
RenderHeader_keeps_incidencias ==
    \E new_imputacion \in imputacion_opciones, new_jefe \in jefes_list \cup {""} :
        /\ \/ new_imputacion # selected_imputacion /\ new_jefe = selected_jefe
           \/ new_imputacion = selected_imputacion /\ new_jefe # selected_jefe
        /\ selected_imputacion' = new_imputacion
        /\ selected_jefe' = new_jefe
        /\ last_op' = [op |-> "header"]
        /\ last_msg' = ""
        /\ IF new_jefe # "" /\ new_imputacion # ""
           THEN FinishRun(incidencias, current_page, table_cache)
           ELSE /\ export_out' = NotReached
                /\ UNCHANGED <<incidencias, current_page, table_cache>>
        /\ UNCHANGED <<saves, probe, master>>

\* _render_header: the user picks another month or another supervisor
RenderHeader ==
    \E new_imputacion \in imputacion_opciones, new_jefe \in jefes_list \cup {""} :
        /\ \/ new_imputacion # selected_imputacion /\ new_jefe = selected_jefe
           \/ new_imputacion = selected_imputacion /\ new_jefe # selected_jefe
        /\ selected_imputacion' = new_imputacion
        /\ selected_jefe' = new_jefe
        /\ last_op' = [op |-> "header"]
        /\ last_msg' = ""
        /\ IF new_jefe # "" /\ new_imputacion # ""
           THEN FinishRun(<<>>, current_page, table_cache)
           ELSE /\ incidencias' = <<>>
                /\ export_out' = NotReached
                /\ UNCHANGED <<current_page, table_cache>>
        /\ UNCHANGED <<saves, probe, master>>

\* a run in which no button is pressed
Rerun ==
    /\ Selected
    /\ last_op' = [op |-> "rerun"]
    /\ last_msg' = ""
    /\ FinishRun(incidencias, current_page, table_cache)
    /\ UNCHANGED <<selected_jefe, selected_imputacion, saves, probe, master>>

\* tab "Por Centro", button "Anadir TODO el Centro"
AnadirTodoElCentro ==
    \E crown_origen \in CentroCodes, crown_destino \in CentroCodes \cup {""} :
        LET empleados_centro == get_employees_by_centro(crown_origen)
            r == IF crown_destino # "" /\ empleados_centro # <<>>
                 THEN add_all_employees_from_centro(incidencias, empleados_centro,
                          selected_jefe, crown_origen, crown_destino, selected_imputacion)
                 ELSE [incidencias |-> incidencias, msg |-> "warning_sin_destino"]
        IN  /\ Selected
            /\ empleados_centro # <<>>
            /\ Len(r.incidencias) <= MaxIncidencias
            /\ last_op' = [op |-> "add_all", empleados |-> empleados_centro,
                           crown_origen |-> crown_origen, crown_destino |-> crown_destino]
            /\ last_msg' = r.msg
            /\ FinishRun(r.incidencias, current_page, table_cache)
            /\ UNCHANGED <<selected_jefe, selected_imputacion, saves, probe, master>>

\* tab "Por Centro", button "Anadir Trabajador Individual"
AnadirTrabajadorIndividual ==
    \E crown_origen \in CentroCodes, crown_destino \in CentroCodes \cup {""} :
      \E trabajador_individual \in Range(get_employees_by_centro(crown_origen)) :
        LET r == IF crown_destino # ""
                 THEN add_incidencia(incidencias, trabajador_individual, 1, selected_jefe,
                                     crown_origen, crown_destino, selected_imputacion)
                 ELSE [incidencias |-> incidencias, msg |-> "warning_sin_destino"]
        IN  /\ Selected
            /\ Len(r.incidencias) <= MaxIncidencias
            /\ last_op' = [op |-> "add_individual", trabajador |-> trabajador_individual,
                           crown_origen |-> crown_origen, crown_destino |-> crown_destino]
            /\ last_msg' = r.msg
            /\ FinishRun(r.incidencias, current_page, table_cache)
            /\ UNCHANGED <<selected_jefe, selected_imputacion, saves, probe, master>>

\* tab "Por Trabajador": one record per configured destination
RECURSIVE add_por_destinos(_, _, _, _, _)
add_por_destinos(incs, nombre, destinos, jefe, imputacion) ==
    IF destinos = <<>> THEN incs
    ELSE add_por_destinos(
             add_incidencia(incs, nombre, 1, jefe, "", Head(destinos), imputacion).incidencias,
             nombre, Tail(destinos), jefe, imputacion)

\* the lists of destinations a user configures in that tab
DestinoConfigs ==
    {<<>>} \cup {<<d>> : d \in CentroCodes} \cup {<<d, d>> : d \in CentroCodes}

AnadirPorTrabajador ==
    \E nombre_trabajador \in Range(get_all_employees), incidencias_config \in DestinoConfigs :
        LET incs == add_por_destinos(incidencias, nombre_trabajador, incidencias_config,
                                     selected_jefe, selected_imputacion)
        IN  /\ Selected
            /\ Len(incs) <= MaxIncidencias
            /\ last_op' = [op |-> "add_por_trabajador", trabajador |-> nombre_trabajador,
                           destinos |-> incidencias_config]
            /\ last_msg' = IF incidencias_config # <<>> THEN "success_agregadas"
                           ELSE "warning_sin_destino"
            /\ FinishRun(incs, current_page, table_cache)
            /\ UNCHANGED <<selected_jefe, selected_imputacion, saves, probe, master>>

\* the page number input of _render_main_table_paginated
CambiarPagina ==
    \E p \in 1..total_pages(Len(incidencias)) :
        /\ Selected
        /\ incidencias # <<>>
        /\ p # current_page
        /\ last_op' = [op |-> "page", page |-> p]
        /\ last_msg' = ""
        /\ FinishRun(incidencias, p, table_cache)
        /\ UNCHANGED <<selected_jefe, selected_imputacion, saves, probe, master>>

\* the table the data editor shows in this run (the buttons below it exist
\* only when it is not empty)
shown_cache == render_cache(table_cache, incidencias_pagina(incidencias, current_page))

TableShown == Selected /\ incidencias # <<>> /\ shown_cache.df # <<>>

\* button "Guardar cambios": _process_page_changes, then st.rerun()
GuardarCambios ==
    /\ TableShown
    /\ saves < MaxSaves
    /\ LET df == shown_cache.df
           start_idx == start_idx_of(current_page)
       IN  \E marks \in SUBSET (DOMAIN df), edit \in RowEdits :
             \E targets \in SUBSET (DOMAIN df \ marks) :
               /\ Cardinality(targets) <= 1 \/ targets = DOMAIN df \ marks
               /\ (edit = NoEdit) <=> (targets = {})
               /\ LET edited == edited_df(df, marks, targets, edit)
                      r      == process_page_changes(incidencias, start_idx, edited,
                                                     selected_jefe)
                  IN  /\ last_op' = [op |-> "save", start_idx |-> start_idx,
                                     edited_rows |-> edited]
                      /\ last_msg' = r.msg
                      /\ FinishRun(r.incidencias, current_page, r.table_cache)
    /\ saves' = saves + 1
    /\ UNCHANGED <<selected_jefe, selected_imputacion, probe, master>>

\* button "Borrar Filas Marcadas": _delete_selected_rows, the run goes on
BorrarFilasMarcadas ==
    /\ TableShown
    /\ LET shown     == shown_cache
           start_idx == start_idx_of(current_page)
       IN  \E marks \in SUBSET (DOMAIN shown.df) :
             LET edited  == edited_df(shown.df, marks, {}, NoEdit)
                 r       == delete_selected_rows(incidencias, start_idx, edited,
                                                 current_page, shown)
                 section == render_export_section(r.incidencias)
             IN  /\ last_op' = [op |-> "delete_selected", start_idx |-> start_idx,
                                edited_rows |-> edited]
                 /\ last_msg' = r.msg
                 /\ incidencias' = section.incidencias
                 /\ current_page' = r.current_page
                 /\ table_cache' = r.table_cache
                 /\ export_out' = export_shown(section)
    /\ UNCHANGED <<selected_jefe, selected_imputacion, saves, probe, master>>

\* button "Borrar Todas", then st.rerun()
BorrarTodas ==
    /\ TableShown
    /\ last_op' = [op |-> "delete_all"]
    /\ last_msg' = "success_borradas"
    /\ FinishRun(<<>>, current_page, NoCache)
    /\ UNCHANGED <<selected_jefe, selected_imputacion, saves, probe, master>>

----------------------------------------------------------------------------
(* Specifications *)

\* the whole session
Next ==
    \/ RenderHeader
    \/ Rerun
    \/ AnadirTodoElCentro
    \/ AnadirTrabajadorIndividual
    \/ AnadirPorTrabajador
    \/ CambiarPagina
    \/ GuardarCambios
    \/ BorrarFilasMarcadas
    \/ BorrarTodas

Spec == Init /\ [][Next]_vars

\* the entry workflows: selecting, adding, paging and deleting, from the
\* empty session
NextEntry ==
    \/ RenderHeader
    \/ Rerun
    \/ AnadirTodoElCentro
    \/ AnadirTrabajadorIndividual
    \/ AnadirPorTrabajador
    \/ CambiarPagina
    \/ BorrarFilasMarcadas
    \/ BorrarTodas

SpecEntry == Init /\ [][NextEntry]_vars

\* the life of a period: selecting the month and the supervisor, adding
\* records under that selection and saving page edits, from the empty session
NextPeriod ==
    \/ RenderHeader
    \/ AnadirTodoElCentro
    \/ GuardarCambios

SpecPeriod == Init /\ [][NextPeriod]_vars

\* the collections the edit workflow starts from: a whole centre added to a
\* destination, optionally followed by records for one worker, or by the same
\* centre once more
EntryCollections ==
    {add_por_destinos(
         add_all_employees_from_centro(<<>>, get_employees_by_centro("101"),
                                       "JEFE1", "101", d, "01-Enero").incidencias,
         n, cfg, "JEFE1", "01-Enero") :
       d \in CentroCodes, n \in Range(get_all_employees), cfg \in DestinoConfigs}
    \cup
    {add_all_employees_from_centro(
         add_all_employees_from_centro(<<>>, get_employees_by_centro("101"),
                                       "JEFE1", "101", d, "01-Enero").incidencias,
         get_employees_by_centro("101"), "JEFE1", "101", d, "01-Enero").incidencias :
       d \in CentroCodes}

\* a session in which such a collection has been entered and is shown
InitEdit ==
    /\ incidencias \in EntryCollections
    /\ selected_jefe = "JEFE1"
    /\ selected_imputacion = "01-Enero"
    /\ current_page = 1
    /\ table_cache = cache_after_render(NoCache, incidencias, 1)
    /\ last_op = [op |-> "entry"]
    /\ last_msg = "success_agregadas"
    /\ export_out = export_shown(render_export_section(incidencias))
    /\ saves = 0
    /\ master = InitialMaster
    /\ probe = NoProbe

\* the edit workflow: paging, saving page edits, exporting
NextEdit ==
    \/ Rerun
    \/ CambiarPagina
    \/ GuardarCambios

SpecEdit == InitEdit /\ [][NextEdit]_vars

\* the records is_valid is asked about: every required field None, empty or
\* filled, and the other fields empty or filled
RecordPool ==
    {[Incidencia EXCEPT
         !.trabajador = t, !.facturable = f, !.motivo = m,
         !.codigo_crown_destino = d, !.fecha = fe,
         !.imputacion_nomina = imp, !.observaciones = obs,
         !.incidencia_horas = h, !.incidencia_precio = pr] :
       t \in {None, "", "ANA"}, f \in {None, "", "No"}, m \in {None, "", "Eventos"},
       d \in {None, "", "101"}, fe \in {None, "", "01/02"},
       imp \in {"", "01-Enero"}, obs \in {"", "nota"}, h \in {0, 2}, pr \in {0, 3}}

\* a record is about to be asked for its validity
InitValid ==
    /\ incidencias = <<>>
    /\ selected_jefe = ""
    /\ selected_imputacion = ""
    /\ current_page = 1
    /\ table_cache = NoCache
    /\ last_op = [op |-> "init"]
    /\ last_msg = ""
    /\ export_out = NotReached
    /\ saves = 0
    /\ master = InitialMaster
    /\ probe \in {[asked |-> FALSE, inc |-> r] : r \in RecordPool}

\* inc.is_valid() is called
IsValidCall ==
    /\ ~probe.asked
    /\ probe' = [asked |-> TRUE, inc |-> probe.inc, result |-> is_valid(probe.inc)]
    /\ UNCHANGED <<incidencias, selected_jefe, selected_imputacion, current_page,
                   table_cache, last_op, last_msg, export_out, saves, master>>

NextValid == IsValidCall

SpecValid == InitValid /\ [][NextValid]_vars

\* the rows a tariff sheet is made of: category as typed, with a one-letter
\* prefix, or missing; agreement code as text, float, scientific notation,
\* not a number, or missing; rate a number, missing, or not a number
TarifaRows ==
    {[Descripcion |-> c, cod_convenio |-> a, tarifa_noct |-> r] :
       c \in {CStr(" asl "), CStr("h ASL"), CNone},
       a \in {CStr("99"), CNum(99), CStr("9.9E+1"), CStr("ABC"), CNone},
       r \in {CNum(2), CNone, CStr("x")}}

\* the rows that may follow another one in the sheet
TarifaRowsAfter ==
    {[Descripcion |-> c, cod_convenio |-> a, tarifa_noct |-> r] :
       c \in {CStr(" asl "), CStr("h ASL")},
       a \in {CStr("99"), CNum(99)},
       r \in {CNum(3), CStr("x")}}

TarifaTables ==
    {<<>>} \cup {<<r>> : r \in TarifaRows}
           \cup {<<r1, r2>> : r1 \in TarifaRows, r2 \in TarifaRowsAfter}

CategoriaQueries ==
    {CStr("ASL"), CStr(" asl "), CStr("h ASL"), CStr("h asl"), CStr("OTRA"), CStr(""), CNone}

ConvenioQueries ==
    {CStr("99"), CNum(99), CInt(99), CStr("9.9E+1"), CStr("ABC"), CStr("88"), CStr(""), CNone}

\* the identifiers handed to the two normalizers
IdPool ==
    {CInt(101), CNum(101), CStr("101"), CStr("101.0"), CStr("1.01E+2"),
     CInt(99), CNum(99), CStr("99"), CStr("99.0"), CStr("9.9E+1"),
     CStr("ABC"), CStr(""), CNone}

\* a tariff sheet is about to be built into a lookup and queried, or an
\* identifier is about to be normalized
InitLookup ==
    /\ incidencias = <<>>
    /\ selected_jefe = ""
    /\ selected_imputacion = ""
    /\ current_page = 1
    /\ table_cache = NoCache
    /\ last_op = [op |-> "init"]
    /\ last_msg = ""
    /\ export_out = NotReached
    /\ saves = 0
    /\ master = InitialMaster
    /\ probe \in {[asked |-> FALSE, fn |-> "tarifa", df |-> t, categoria |-> c, cod_convenio |-> a] :
                     t \in TarifaTables, c \in CategoriaQueries, a \in ConvenioQueries}
            \cup {[asked |-> FALSE, fn |-> "normalize", rule |-> k, x |-> x] :
                     k \in {"centro", "convenio"}, x \in IdPool}

\* build_tarifa_lookup(df) followed by get_precio_nocturnidad(categoria,
\* cod_convenio), in both modules
TarifaCall ==
    /\ ~probe.asked
    /\ probe.fn = "tarifa"
    /\ probe' = [asked |-> TRUE, fn |-> "tarifa", df |-> probe.df,
                 categoria |-> probe.categoria, cod_convenio |-> probe.cod_convenio,
                 lookup |-> build_tarifa_lookup(probe.df),
                 result |-> precio_nocturnidad(build_tarifa_lookup(probe.df),
                                               probe.categoria, probe.cod_convenio),
                 pipeline_lookup |-> pipeline_build_tarifa_lookup(probe.df),
                 pipeline_result |-> pipeline_precio_nocturnidad(
                                         pipeline_build_tarifa_lookup(probe.df),
                                         probe.categoria, probe.cod_convenio)]
    /\ UNCHANGED <<incidencias, selected_jefe, selected_imputacion, current_page,
                   table_cache, last_op, last_msg, export_out, saves, master>>

\* an identifier is normalized, and the result normalized again
NormalizeCall ==
    /\ ~probe.asked
    /\ probe.fn = "normalize"
    /\ LET once == IF probe.rule = "centro" THEN normalize_centro(probe.x)
                   ELSE ConvenioNorm(probe.x)
       IN  probe' = [asked |-> TRUE, fn |-> "normalize", rule |-> probe.rule, x |-> probe.x,
                     once  |-> once,
                     twice |-> IF probe.rule = "centro" THEN normalize_centro(CStr(once))
                               ELSE ConvenioNorm(CStr(once))]
    /\ UNCHANGED <<incidencias, selected_jefe, selected_imputacion, current_page,
                   table_cache, last_op, last_msg, export_out, saves, master>>

NextLookup ==
    \/ TarifaCall
    \/ NormalizeCall

SpecLookup == InitLookup /\ [][NextLookup]_vars

\* the rows of a Centros sheet: the code a float, a text, empty or missing;
\* the deactivation date missing or set; the supervisor allowed, excluded or
\* missing
CentrosRows ==
    {[cod_centro_preferente |-> c, fecha_baja_centro |-> f, nombre_jefe_ope |-> j] :
       c \in {CNum(101), CStr("ABC"), CStr(""), CNone},
       f \in {CNone, CStr("2024-01-31")},
       j \in {CStr("JEFE1"), CStr("Julio"), CStr("Esther Martin Gonzalez"), CNone}}

\* the Centros sheets: absent from the workbook, or with up to two rows and
\* with or without each of its three columns
CentrosSheets ==
    {[present |-> FALSE, columns |-> {}, rows |-> <<>>]} \cup
    {[present |-> TRUE, columns |-> cols, rows |-> rows] :
       cols \in {{"cod_centro_preferente", "fecha_baja_centro", "nombre_jefe_ope"},
                 {"cod_centro_preferente", "nombre_jefe_ope"},
                 {"cod_centro_preferente", "fecha_baja_centro"},
                 {"fecha_baja_centro", "nombre_jefe_ope"}},
       rows \in {<<>>} \cup {<<r>> : r \in CentrosRows}
                       \cup {<<r1, r2>> : r1 \in CentrosRows, r2 \in CentrosRows}}

\* the other three sheets: absent, or with one row and some of their columns
OtherSheets ==
    [Trabajadores |->
        {[present |-> FALSE, columns |-> {}, rows |-> <<>>]} \cup
        {[present |-> TRUE, columns |-> cols,
          rows |-> <<[nombre_empleado |-> CStr("ANA"), centro_preferente |-> CNum(101)]>>] :
            cols \in SUBSET {"nombre_empleado", "centro_preferente"}},
     tarifas_incidencias |->
        {[present |-> FALSE, columns |-> {}, rows |-> <<>>]} \cup
        {[present |-> TRUE, columns |-> cols, rows |-> <<df_tarifas[1]>>] :
            cols \in SUBSET {"Descripcion", "cod_convenio", "tarifa_noct"}},
     cuenta_motivos |->
        {[present |-> FALSE, columns |-> {}, rows |-> <<>>]} \cup
        {[present |-> TRUE, columns |-> cols,
          rows |-> <<[Motivo |-> CStr("Eventos"), desc_cuenta |-> CStr("72 incentivos")]>>] :
            cols \in SUBSET {"Motivo", "desc_cuenta"}}]

\* a master sheet is about to be loaded
InitLoad ==
    /\ incidencias = <<>>
    /\ selected_jefe = ""
    /\ selected_imputacion = ""
    /\ current_page = 1
    /\ table_cache = NoCache
    /\ last_op = [op |-> "init"]
    /\ last_msg = ""
    /\ export_out = NotReached
    /\ saves = 0
    /\ master = InitialMaster
    /\ probe \in {[asked |-> FALSE, fn |-> "Centros", sheet |-> sh] : sh \in CentrosSheets}
            \cup {[asked |-> FALSE, fn |-> n, sheet |-> sh] :
                     n \in {"Trabajadores"}, sh \in OtherSheets.Trabajadores}
            \cup {[asked |-> FALSE, fn |-> n, sheet |-> sh] :
                     n \in {"tarifas_incidencias"}, sh \in OtherSheets.tarifas_incidencias}
            \cup {[asked |-> FALSE, fn |-> n, sheet |-> sh] :
                     n \in {"cuenta_motivos"}, sh \in OtherSheets.cuenta_motivos}

\* the Centros sheet is loaded and cleaned
CentrosCall ==
    /\ ~probe.asked
    /\ probe.fn = "Centros"
    /\ probe' = [asked |-> TRUE, fn |-> probe.fn, sheet |-> probe.sheet,
                 result |-> load_centros(probe.sheet)]
    /\ UNCHANGED <<incidencias, selected_jefe, selected_imputacion, current_page,
                   table_cache, last_op, last_msg, export_out, saves, master>>

\* one of the other three sheets is loaded
LoaderCall ==
    /\ ~probe.asked
    /\ probe.fn # "Centros"
    /\ probe' = [asked |-> TRUE, fn |-> probe.fn, sheet |-> probe.sheet,
                 result |-> CASE probe.fn = "Trabajadores" -> load_trabajadores(probe.sheet)
                              [] probe.fn = "tarifas_incidencias" -> load_tarifas(probe.sheet)
                              [] probe.fn = "cuenta_motivos" -> load_cuenta_motivos(probe.sheet)]
    /\ UNCHANGED <<incidencias, selected_jefe, selected_imputacion, current_page,
                   table_cache, last_op, last_msg, export_out, saves, master>>

NextLoad ==
    \/ CentrosCall
    \/ LoaderCall

SpecLoad == InitLoad /\ [][NextLoad]_vars

----------------------------------------------------------------------------
(* The export of a collection against a workbook's cuenta_motivos sheet *)

\* records as the session makes them: added for an employee of the master,
\* then edited in the table
ExportRecords ==
    {[nueva_incidencia(n, "JEFE1", "", "101", "01-Enero") EXCEPT
         !.facturable = "No", !.motivo = m, !.fecha = "01/02",
         !.incidencia_horas = 2, !.incidencia_precio = pr,
         !.nocturnidad_horas = nh, !.traslados_total = tr] :
       n \in {"ANA", "LUIS"},
       m \in {"", "Eventos", "Absentismo", "Festivos y Fines de Semana", "Otros"},
       pr \in {0, 3}, nh \in {1}, tr \in {0, 5}}

ExportCollections ==
    {<<a>> : a \in ExportRecords}
        \cup {<<a, b>> : a \in {r \in ExportRecords : r.incidencia_precio = 3 /\ r.traslados_total = 5},
                         b \in {r \in ExportRecords : r.trabajador = "LUIS"}}

\* cuenta_motivos sheets: missing, lacking a column, with every account, with
\* a Motivo listed twice, with empty cells
MotivosSheets ==
    {[present |-> FALSE, columns |-> {}, rows |-> <<>>]}
    \cup {[present |-> TRUE, columns |-> cols, rows |-> rows] :
            cols \in {{"Motivo", "desc_cuenta"}, {"Motivo"}},
            rows \in {<<>>,
                      <<[Motivo |-> CStr("Eventos"), desc_cuenta |-> CStr("72 incentivos")],
                        [Motivo |-> CStr("Absentismo"), desc_cuenta |-> CStr("73 plus sustitucion")],
                        [Motivo |-> CStr("Festivos y Fines de Semana"), desc_cuenta |-> CStr("70/71 festivos")],
                        [Motivo |-> CStr("Otros"), desc_cuenta |-> CStr("74 plus nocturnidad")]>>,
                      <<[Motivo |-> CStr("Eventos"), desc_cuenta |-> CStr("72 incentivos")],
                        [Motivo |-> CStr("Eventos"), desc_cuenta |-> CStr("73 y 70/71")],
                        [Motivo |-> CStr("Eventos"), desc_cuenta |-> CStr("sin cuenta")]>>,
                      <<[Motivo |-> CStr("Absentismo"), desc_cuenta |-> CNone],
                        [Motivo |-> CNone, desc_cuenta |-> CStr("72 incentivos")],
                        [Motivo |-> CStr("Otros"), desc_cuenta |-> CNum(77)]>>}}

\* a collection is about to be exported
InitExport ==
    /\ incidencias = <<>>
    /\ selected_jefe = ""
    /\ selected_imputacion = ""
    /\ current_page = 1
    /\ table_cache = NoCache
    /\ last_op = [op |-> "init"]
    /\ last_msg = ""
    /\ export_out = NotReached
    /\ saves = 0
    /\ master = InitialMaster
    /\ probe \in {[asked |-> FALSE, fn |-> "export", incs |-> c, sheet |-> sh] :
                     c \in ExportCollections, sh \in MotivosSheets}

\* the export section runs on the collection: the metrics, and the rows of
\* the workbook
ExportCall ==
    /\ ~probe.asked
    /\ probe.fn = "export"
    /\ probe' = [asked |-> TRUE, fn |-> probe.fn, incs |-> probe.incs, sheet |-> probe.sheet,
                 metricas |-> calculate_metrics_optimized(incidencias_validas(probe.incs)),
                 rows |-> [i \in DOMAIN incidencias_validas(probe.incs) |->
                             export_row_with(incidencias_validas(probe.incs)[i], probe.sheet)]]
    /\ UNCHANGED <<incidencias, selected_jefe, selected_imputacion, current_page,
                   table_cache, last_op, last_msg, export_out, saves, master>>

NextExport ==
    \/ ExportCall

SpecExport == InitExport /\ [][NextExport]_vars

----------------------------------------------------------------------------
(* A press of the Consolidar button *)

\* what the button finds: the period folder, the master workbook, whether
\* copy2 can write the backup, what the script does and leaves, whether the
\* processed workbook is there from an earlier run, and whether copy2 can
\* write the master
ConsolidaEnvs ==
    [periodo_folder : BOOLEAN, maestros : {"absent", "old"},
     copy2_backup : {"ok", "raises"},
     run : {"exit0", "nonzero", "timeout", "raises"},
     processed : {"absent", "earlier"}, script_writes : BOOLEAN,
     copy2_maestros : {"ok", "raises"}]

\* the session the button is pressed in: the data manager built from the
\* master as it was, and the records entered
ConsolidaSessions ==
    [data_manager : {[lookups |-> "old"], [lookups |-> "absent"]},
     incidencias : {<<>>, <<[nombre_trabajador |-> "ANA", fecha_incidencia |-> "2024-01-05"]>>}]

InitConsolida ==
    /\ incidencias = <<>>
    /\ selected_jefe = ""
    /\ selected_imputacion = ""
    /\ current_page = 1
    /\ table_cache = NoCache
    /\ last_op = [op |-> "init"]
    /\ last_msg = ""
    /\ export_out = NotReached
    /\ saves = 0
    /\ master = InitialMaster
    /\ probe \in {pr \in {[asked |-> FALSE, fn |-> "consolidar", env |-> e, session |-> ss] :
                               e \in ConsolidaEnvs, ss \in ConsolidaSessions} :
                     pr.session.data_manager.lookups = pr.env.maestros}

\* the button is pressed
ConsolidarCall ==
    /\ ~probe.asked
    /\ probe.fn = "consolidar"
    /\ probe' = [asked |-> TRUE, fn |-> probe.fn, env |-> probe.env, session |-> probe.session,
                 result |-> sidebar_consolidar(probe.env, probe.session)]
    /\ UNCHANGED <<incidencias, selected_jefe, selected_imputacion, current_page,
                   table_cache, last_op, last_msg, export_out, saves, master>>

NextConsolida ==
    \/ ConsolidarCall

SpecConsolida == InitConsolida /\ [][NextConsolida]_vars

\* no session yet, the workbook in any of its states
InitMaster ==
    /\ incidencias = <<>>
    /\ selected_jefe = ""
    /\ selected_imputacion = ""
    /\ current_page = 1
    /\ table_cache = NoCache
    /\ last_op = [op |-> "init"]
    /\ last_msg = ""
    /\ export_out = NotReached
    /\ saves = 0
    /\ probe = NoProbe
    /\ master \in {[file |-> f, cache_data |-> {}, data_manager |-> NoManager] : f \in Workbooks}

\* the workbook is replaced, removed or made unreadable
WorkbookChanges ==
    \E f \in Workbooks \ {master.file} :
        /\ master' = [master EXCEPT !.file = f]
        /\ last_op' = [op |-> "workbook"]
        /\ UNCHANGED <<incidencias, selected_jefe, selected_imputacion, current_page,
                       table_cache, last_msg, export_out, saves, probe>>

\* a browser session starts: __init__ builds the data manager, run() serves
NewSession ==
    /\ master' = new_data_manager(master)
    /\ last_op' = [op |-> "new_session", served |-> serve(new_data_manager(master)),
                   workbook |-> master.file]
    /\ UNCHANGED <<incidencias, selected_jefe, selected_imputacion, current_page,
                   table_cache, last_msg, export_out, saves, probe>>

\* a later run of the script in the same session: __init__ finds
\* app_initialized_optimized and keeps st.session_state.data_manager
RunScript ==
    /\ master.data_manager # NoManager
    /\ last_op' = [op |-> "run", served |-> serve(master), workbook |-> master.file]
    /\ UNCHANGED <<incidencias, selected_jefe, selected_imputacion, current_page,
                   table_cache, last_msg, export_out, saves, probe, master>>

NextMaster ==
    \/ WorkbookChanges
    \/ NewSession
    \/ RunScript

SpecMaster == InitMaster /\ [][NextMaster]_vars

----------------------------------------------------------------------------
(* Properties *)

\* the k-th smallest element of a finite set of integers
NthOf(S, k) == CHOOSE i \in S : Cardinality({j \in S : j <= i}) = k

\* the subsequence of s at the positions K, in order
KeepAt(s, K) == [k \in 1..Cardinality(K) |-> s[NthOf(K, k)]]

\* the page rows whose Borrar box is ticked
MarkedRows(edited_rows) == {i \in DOMAIN edited_rows : edited_rows[i].Borrar}

\* the collection positions (1-based) those rows stand for
GonePositions(start_idx, edited_rows) == {start_idx + i : i \in MarkedRows(edited_rows)}

\* where the record at position q is found once the positions `gone` are removed
NewPos(q, gone) == q - Cardinality({g \in gone : g < q})

\* the row of the Trabajadores sheet the lookup keeps for a name: the last one
MasterRecord(nombre) ==
    df_trabajadores[CHOOSE i \in DOMAIN df_trabajadores :
                       /\ df_trabajadores[i].nombre_empleado = nombre
                       /\ \A j \in DOMAIN df_trabajadores :
                             df_trabajadores[j].nombre_empleado = nombre => j <= i]

\* a centre code that is in no row of the Centers lookup
UnknownCentre == "999"

RequiredFields == {"trabajador", "facturable", "motivo", "codigo_crown_destino", "fecha"}

ValidPositions(incs) == {i \in DOMAIN incs : is_valid(incs[i])}

C2_ExportOneRowPerValidRecord ==
    LET V == ValidPositions(incidencias)
    IN  /\ (export_out.status # "no_ejecutado" /\ V # {}) => export_out.excel_data.bytes
        /\ export_out.excel_data.bytes =>
              LET rows == export_out.excel_data.rows
              IN  /\ Len(rows) = Cardinality(V)
                  /\ \A k \in 1..Cardinality(V) :
                        rows[k] = export_row(incidencias[NthOf(V, k)])

\* two different valid records and an invalid one have been exported
C2_Witness ==
    /\ export_out.excel_data.bytes
    /\ Len(export_out.excel_data.rows) >= 2
    /\ export_out.excel_data.rows[1] # export_out.excel_data.rows[2]
    /\ Len(incidencias) > Len(export_out.excel_data.rows)

C4_ExportLeavesCollection ==
    [][last_op'.op \in {"rerun", "page"} => incidencias' = incidencias]_vars

\* such a run has exported a workbook from a collection that also holds an
\* invalid record
C4_Witness ==
    /\ last_op.op = "rerun"
    /\ export_out.excel_data.bytes
    /\ \E i \in DOMAIN incidencias : ~is_valid(incidencias[i])

\* C5: delete-selected on the page at offset s removes exactly the records at
\* the positions s+i of the ticked rows i; all other records stay, unchanged
\* and in their order.
C5_DeleteSelectedExactPositions ==
    [][last_op'.op = "delete_selected" =>
          LET gone == GonePositions(last_op'.start_idx, last_op'.edited_rows)
          IN  /\ gone \subseteq DOMAIN incidencias
              /\ incidencias' = KeepAt(incidencias, DOMAIN incidencias \ gone)]_vars

\* a row of a later page was deleted while another row of that page stayed
C5_Witness ==
    /\ last_op.op = "delete_selected"
    /\ last_op.start_idx > 0
    /\ MarkedRows(last_op.edited_rows) # {}
    /\ MarkedRows(last_op.edited_rows) # DOMAIN last_op.edited_rows
    /\ Len(incidencias) > last_op.start_idx

\* C6: delete-selected with no row ticked leaves the collection unchanged and
\* reports the "nothing marked" warning.
C6_DeleteNothingMarkedWarns ==
    [][(last_op'.op = "delete_selected" /\ MarkedRows(last_op'.edited_rows) = {}) =>
          /\ incidencias' = incidencias
          /\ last_msg' = "warning_sin_marcadas"]_vars

\* the button was pressed with nothing ticked on a non-empty table
C6_Witness ==
    /\ last_op.op = "delete_selected"
    /\ MarkedRows(last_op.edited_rows) = {}
    /\ last_msg = "warning_sin_marcadas"
    /\ incidencias # <<>>

\* C7: bulk-add for a list of N employees appends exactly N records, one per
\* name in list order, after the existing records, which are unchanged; when
\* the handler is not reached nothing is appended; and called with an empty
\* list it returns the collection unchanged with a warning.
C7_BulkAddAllOrNothing ==
    [][/\ last_op'.op = "add_all" =>
             LET empleados == last_op'.empleados
                 n         == Len(incidencias)
             IN  IF last_op'.crown_destino # ""
                 THEN /\ Len(incidencias') = n + Len(empleados)
                      /\ SubSeq(incidencias', 1, n) = incidencias
                      /\ \A k \in DOMAIN empleados :
                            incidencias'[n + k].trabajador = empleados[k]
                      /\ last_msg' = "success_agregados"
                 ELSE incidencias' = incidencias
       /\ \A d \in CentroCodes :
             add_all_employees_from_centro(incidencias, <<>>, selected_jefe, d, d,
                                           selected_imputacion)
                = [incidencias |-> incidencias, msg |-> "warning_sin_empleados"]]_vars

\* a centre of two employees was added behind records already entered
C7_Witness ==
    /\ last_op.op = "add_all"
    /\ last_msg = "success_agregados"
    /\ Len(last_op.empleados) >= 2
    /\ Len(incidencias) > Len(last_op.empleados)

\* C8: each record bulk-add creates carries the employee's category, service,
\* agreement code and preferred centre from the master record, the preferred
\* centre as origin, the requested destination, and the destination's name
\* from the Centers lookup; for a destination in no lookup row the name is "".
C8_BulkAddDerivedFields ==
    [][/\ (last_op'.op = "add_all" /\ last_op'.crown_destino # "") =>
             \A k \in DOMAIN last_op'.empleados :
                LET r == incidencias'[Len(incidencias) + k]
                    m == MasterRecord(last_op'.empleados[k])
                IN  /\ r.categoria = m.cat_empleado
                    /\ r.servicio = m.servicio
                    /\ r.cod_reg_convenio = m.cod_reg_convenio
                    /\ r.centro_preferente = m.centro_preferente
                    /\ r.codigo_crown_origen = m.centro_preferente
                    /\ r.codigo_crown_destino = last_op'.crown_destino
                    /\ r.nombre_crown_destino = CentroNombre(last_op'.crown_destino)
       /\ \A o \in CentroCodes :
             LET r == add_all_employees_from_centro(incidencias, get_employees_by_centro(o),
                          selected_jefe, o, UnknownCentre, selected_imputacion).incidencias
             IN  \A k \in (Len(incidencias) + 1)..Len(r) :
                    /\ r[k].codigo_crown_destino = UnknownCentre
                    /\ r[k].nombre_crown_destino = ""]_vars

\* bulk-add created a record for an employee whose preferred centre is not the
\* centre she was listed under
C8_Witness ==
    /\ last_op.op = "add_all"
    /\ last_msg = "success_agregados"
    /\ \E i \in DOMAIN incidencias :
          /\ incidencias[i].codigo_crown_origen # last_op.crown_origen
          /\ incidencias[i].nombre_crown_destino = "Centro A"

\* C9: when a saved page row names another worker than the stored record, the
\* saved record has that worker's category, agreement code and supervisor from
\* the master data, and its base hours, base price, night hours and transfer
\* total are the numbers shown in the row.
C9_WorkerChangeRederives ==
    [][last_op'.op = "save" =>
          LET rows == last_op'.edited_rows
              s    == last_op'.start_idx
              gone == GonePositions(s, rows)
          IN  \A i \in DOMAIN rows \ MarkedRows(rows) :
                 LET cells == rows[i].cells
                     old   == incidencias[s + i]
                     new   == incidencias'[NewPos(s + i, gone)]
                 IN  (/\ cells["Trabajador"].t = "str"
                      /\ cells["Trabajador"].v \in Range(get_all_employees)
                      /\ cells["Trabajador"].v # old.trabajador) =>
                        LET m == MasterRecord(cells["Trabajador"].v)
                        IN  /\ new.trabajador = cells["Trabajador"].v
                            /\ new.categoria = m.cat_empleado
                            /\ new.cod_reg_convenio = m.cod_reg_convenio
                            /\ new.nombre_jefe_ope = m.nombre_jefe_ope
                            /\ cells["Incidencia_horas"].t = "num"
                                  => new.incidencia_horas = cells["Incidencia_horas"].v
                            /\ cells["Incidencia_precio"].t = "num"
                                  => new.incidencia_precio = cells["Incidencia_precio"].v
                            /\ cells["Nocturnidad_horas"].t = "num"
                                  => new.nocturnidad_horas = cells["Nocturnidad_horas"].v
                            /\ cells["Traslados_total"].t = "num"
                                  => new.traslados_total = cells["Traslados_total"].v]_vars

\* a row showing another worker's origin centre was saved as EVA, with the two
\* hours typed in the row
C9_Witness ==
    /\ last_op.op = "save"
    /\ \E i \in DOMAIN last_op.edited_rows \ MarkedRows(last_op.edited_rows) :
          LET cells == last_op.edited_rows[i].cells
              q     == NewPos(last_op.start_idx + i,
                              GonePositions(last_op.start_idx, last_op.edited_rows))
          IN  /\ cells["Trabajador"] = CStr("EVA")
              /\ cells["Codigo_Crown_Origen"] # CStr("104")
              /\ cells["Incidencia_horas"] = CNum(2)
              /\ q \in DOMAIN incidencias
              /\ incidencias[q].categoria = "COC"
              /\ incidencias[q].nombre_jefe_ope = "JEFE9"
              /\ incidencias[q].incidencia_horas = 2

\* C10: saving a page drops exactly its ticked rows: the collection shrinks by
\* their number, every record outside the page is kept as it is, every
\* unticked page row is stored in its place, and the survivors keep their order.
C10_SaveDropsExactlyMarkedRows ==
    [][last_op'.op = "save" =>
          LET rows == last_op'.edited_rows
              s    == last_op'.start_idx
              gone == GonePositions(s, rows)
          IN  /\ gone \subseteq DOMAIN incidencias
              /\ Len(incidencias') = Len(incidencias) - Cardinality(MarkedRows(rows))
              /\ \A q \in DOMAIN incidencias \ gone :
                    LET new == incidencias'[NewPos(q, gone)]
                    IN  IF q <= s \/ q > s + ROWS_PER_PAGE
                        THEN new = incidencias[q]
                        ELSE new = edited_incidencia(incidencias[q], rows[q - s],
                                                     selected_jefe)]_vars

\* a later page was saved with one of its rows ticked and another one kept
C10_Witness ==
    /\ last_op.op = "save"
    /\ last_op.start_idx > 0
    /\ MarkedRows(last_op.edited_rows) # {}
    /\ MarkedRows(last_op.edited_rows) # DOMAIN last_op.edited_rows
    /\ Len(incidencias) > last_op.start_idx

\* C11: after a page is saved, every unticked row is stored with its numeric
\* fields equal to the number in the cell (0 for an empty or null cell), its
\* text fields equal to the trimmed cell text (the empty string for a null,
\* 'nan' or 'None' cell), and no stored text field is the literal 'None' or
\* 'nan'.
C11_SavedFieldsCoerced ==
    [][last_op'.op = "save" =>
          LET rows == last_op'.edited_rows
              s    == last_op'.start_idx
              gone == GonePositions(s, rows)
              sentinel(cell) == cell.t = "none" \/ Lower(Strip(cell.v)) \in {"", "nan", "none"}
              text(cell)     == IF sentinel(cell) THEN "" ELSE Strip(cell.v)
              number(cell)   == IF cell.t = "num" THEN cell.v ELSE 0
          IN  \A i \in DOMAIN rows \ MarkedRows(rows) :
                 LET cells == rows[i].cells
                     new   == incidencias'[NewPos(s + i, gone)]
                 IN  /\ new.incidencia_horas  = number(cells["Incidencia_horas"])
                     /\ new.incidencia_precio = number(cells["Incidencia_precio"])
                     /\ new.nocturnidad_horas = number(cells["Nocturnidad_horas"])
                     /\ new.traslados_total   = number(cells["Traslados_total"])
                     /\ new.trabajador    = text(cells["Trabajador"])
                     /\ new.facturable    = text(cells["Facturable"])
                     /\ new.motivo        = text(cells["Motivo"])
                     /\ new.observaciones = text(cells["Observaciones"])
                     /\ new.fecha         = text(cells["Fecha"])
                     /\ \A f \in {"trabajador", "facturable", "motivo", "empresa_destino",
                                  "observaciones", "codigo_crown_origen",
                                  "codigo_crown_destino", "fecha"} :
                           new[f] \notin {"None", "nan"}]_vars

\* the part of C11 the save keeps: numeric fields are the cell's number or 0,
\* and worker, billable and reason are the trimmed cell text or empty
C11_SavedNumbersAndChoices ==
    [][last_op'.op = "save" =>
          LET rows == last_op'.edited_rows
              s    == last_op'.start_idx
              gone == GonePositions(s, rows)
              text(cell)   == IF cell.t = "none" \/ Lower(cell.v) \in {"", "nan", "none"}
                              THEN "" ELSE Strip(cell.v)
              number(cell) == IF cell.t = "num" THEN cell.v ELSE 0
          IN  \A i \in DOMAIN rows \ MarkedRows(rows) :
                 LET cells == rows[i].cells
                     new   == incidencias'[NewPos(s + i, gone)]
                 IN  /\ new.incidencia_horas  = number(cells["Incidencia_horas"])
                     /\ new.incidencia_precio = number(cells["Incidencia_precio"])
                     /\ new.nocturnidad_horas = number(cells["Nocturnidad_horas"])
                     /\ new.traslados_total   = number(cells["Traslados_total"])
                     /\ new.trabajador    = text(cells["Trabajador"])
                     /\ new.facturable    = text(cells["Facturable"])
                     /\ new.motivo        = text(cells["Motivo"])]_vars

\* a row whose date cell held the text None was saved, and the record stored
\* for it has the date 'None'
C11_Witness ==
    /\ last_op.op = "save"
    /\ \E i \in DOMAIN last_op.edited_rows \ MarkedRows(last_op.edited_rows) :
          LET q == NewPos(last_op.start_idx + i,
                          GonePositions(last_op.start_idx, last_op.edited_rows))
          IN  /\ last_op.edited_rows[i].cells["Fecha"] = CStr("None")
              /\ q \in DOMAIN incidencias
              /\ incidencias[q].fecha = "None"

\* C12: paging is a window over the collection: there are ceil(count / P)
\* pages (one when the collection is empty), page k holds the records at the
\* 0-based positions (k-1)*P .. min(k*P, count)-1 in collection order, the
\* table rendered for it is built from exactly those records, and changing
\* the page leaves the collection as it is.
C12_PageIsWindow ==
    [][last_op'.op = "page" =>
          LET n     == Len(incidencias)
              k     == last_op'.page
              pages == CHOOSE t \in 1..(n + 1) :
                          /\ t * ROWS_PER_PAGE >= n
                          /\ (t > 1 => (t - 1) * ROWS_PER_PAGE < n)
              lo    == (k - 1) * ROWS_PER_PAGE
              hi    == IF k * ROWS_PER_PAGE < n THEN k * ROWS_PER_PAGE ELSE n
              window == [j \in 1..(hi - lo) |-> incidencias[lo + j]]
          IN  /\ incidencias' = incidencias
              /\ total_pages(n) = pages
              /\ pipeline_total_pages(n) = pages
              /\ total_pages(0) = 1 /\ pipeline_total_pages(0) = 1
              /\ k \in 1..pages
              /\ current_page' = k
              /\ \A q \in 1..pages :
                    LET l == (q - 1) * ROWS_PER_PAGE
                        h == IF q * ROWS_PER_PAGE < n THEN q * ROWS_PER_PAGE ELSE n
                        w == [j \in 1..(h - l) |-> incidencias[l + j]]
                    IN  /\ incidencias_pagina(incidencias, q) = w
                        /\ pipeline_df_page(incidencias, q - 1) = w
              /\ table_cache'.present
              /\ table_cache'.hash = get_incidencias_hash(window)
              /\ Len(table_cache'.df) = hi - lo]_vars

\* the last page, holding fewer records than a full page, has been opened
C12_Witness ==
    /\ last_op.op = "page"
    /\ last_op.page > 1
    /\ last_op.page = total_pages(Len(incidencias))
    /\ Len(incidencias) % ROWS_PER_PAGE # 0
    /\ table_cache.present
    /\ Len(table_cache.df) = Len(incidencias) % ROWS_PER_PAGE

\* the category of a sheet row or of a query with case, surrounding blanks and
\* one leading one-letter token disregarded
CanonCategoria(x) == DropPrefix(StripUpper(PyStr(x)))

\* a sheet row with a category, a numeric agreement code and a numeric rate
TarifaRowComplete(row) ==
    /\ notna(row.Descripcion)
    /\ notna(row.cod_convenio) /\ float_of(row.cod_convenio).ok
    /\ notna(row.tarifa_noct) /\ float_of(row.tarifa_noct).ok

\* C13: the night rate does not depend on how category and agreement code are
\* written: for a complete sheet row (c, a, r) that no later row of the same
\* category and code follows, a query whose category differs from c only by
\* case, surrounding blanks or a leading one-letter token, and whose code is
\* the same integer as a (text, float or scientific notation), returns r.
C13_LookupEncodingInsensitive ==
    (probe.asked /\ probe.fn = "tarifa") =>
        \A i \in DOMAIN probe.df :
           LET row == probe.df[i]
               same(r) == /\ TarifaRowComplete(r)
                          /\ CanonCategoria(r.Descripcion) = CanonCategoria(row.Descripcion)
                          /\ float_of(r.cod_convenio).v = float_of(row.cod_convenio).v
           IN  (/\ TarifaRowComplete(row)
                /\ \A j \in DOMAIN probe.df : same(probe.df[j]) => j <= i
                /\ notna(probe.categoria) /\ probe.categoria # CStr("")
                /\ CanonCategoria(probe.categoria) = CanonCategoria(row.Descripcion)
                /\ notna(probe.cod_convenio) /\ float_of(probe.cod_convenio).ok
                /\ float_of(probe.cod_convenio).v = float_of(row.cod_convenio).v)
               => probe.result.value = float_of(row.tarifa_noct).v

\* the part of C13 that holds: the same, for the sheet rows whose category has
\* no leading one-letter token
C13_LookupInsensitiveUnprefixedRows ==
    (probe.asked /\ probe.fn = "tarifa") =>
        \A i \in DOMAIN probe.df :
           LET row == probe.df[i]
               same(r) == /\ TarifaRowComplete(r)
                          /\ StripUpper(PyStr(r.Descripcion)) = StripUpper(PyStr(row.Descripcion))
                          /\ float_of(r.cod_convenio).v = float_of(row.cod_convenio).v
           IN  (/\ TarifaRowComplete(row)
                /\ StripUpper(PyStr(row.Descripcion)) = CanonCategoria(row.Descripcion)
                /\ \A j \in DOMAIN probe.df : same(probe.df[j]) => j <= i
                /\ notna(probe.categoria) /\ probe.categoria # CStr("")
                /\ CanonCategoria(probe.categoria) = CanonCategoria(row.Descripcion)
                /\ notna(probe.cod_convenio) /\ float_of(probe.cod_convenio).ok
                /\ float_of(probe.cod_convenio).v = float_of(row.cod_convenio).v)
               => probe.result.value = float_of(row.tarifa_noct).v

\* the sheet's only row is ('h ASL', 99.0, 2), the query is ('h ASL', '99'),
\* and the rate returned is 0
C13_Witness ==
    /\ probe.asked /\ probe.fn = "tarifa"
    /\ probe.df = <<[Descripcion |-> CStr("h ASL"), cod_convenio |-> CNum(99),
                     tarifa_noct |-> CNum(2)]>>
    /\ probe.categoria = CStr("h ASL")
    /\ probe.cod_convenio = CStr("99")
    /\ probe.result.value = 0

C15_BuilderSkipsIncompleteRows ==
    (probe.asked /\ probe.fn = "tarifa") =>
        LET has_all(row) == /\ notna(row.Descripcion) /\ row.Descripcion # CStr("")
                            /\ notna(row.cod_convenio) /\ row.cod_convenio # CStr("")
                            /\ notna(row.tarifa_noct) /\ float_of(row.tarifa_noct).ok
            rows == {i \in DOMAIN probe.df : has_all(probe.df[i])}
            last(i) == \A j \in rows : tarifa_key(probe.df[j]) = tarifa_key(probe.df[i]) => j <= i
        IN  probe.lookup = {<<tarifa_key(probe.df[i]), float_of(probe.df[i].tarifa_noct).v>> :
                               i \in {k \in rows : last(k)}}

\* the part of C15 that holds: a row without agreement code, or whose rate is
\* missing or not a number, stores nothing, and the last row of a key wins
C15_BuilderSkipsCodeAndRate ==
    (probe.asked /\ probe.fn = "tarifa") =>
        LET has(row) == /\ notna(row.cod_convenio) /\ row.cod_convenio # CStr("")
                        /\ notna(row.tarifa_noct) /\ float_of(row.tarifa_noct).ok
            rows == {i \in DOMAIN probe.df : has(probe.df[i])}
            last(i) == \A j \in rows : tarifa_key(probe.df[j]) = tarifa_key(probe.df[i]) => j <= i
        IN  probe.lookup = {<<tarifa_key(probe.df[i]), float_of(probe.df[i].tarifa_noct).v>> :
                               i \in {k \in rows : last(k)}}

\* the sheet's only row has no category, the code 99 and the rate 2, and the
\* lookup built from it has the entry ('NAN', '99') -> 2
C15_Witness ==
    /\ probe.asked /\ probe.fn = "tarifa"
    /\ probe.df = <<[Descripcion |-> CNone, cod_convenio |-> CStr("99"),
                     tarifa_noct |-> CNum(2)]>>
    /\ probe.lookup = {<< <<"NAN", "99">>, 2 >>}

\* C16: normalizing a numeric identifier (an integer, a float with a zero
\* fraction, a text in scientific notation) gives the decimal digits of the
\* integer, normalizing the result again changes nothing, and the rule for
\* centre codes and the rule for agreement codes give the same result.
C16_NormalizeIdempotentCanonical ==
    (probe.asked /\ probe.fn = "normalize" /\ notna(probe.x) /\ float_of(probe.x).ok) =>
        /\ probe.twice = probe.once
        /\ probe.once = DecimalStr(float_of(probe.x).v)
        /\ normalize_centro(probe.x) = ConvenioNorm(probe.x)

\* the part of C16 that holds: both rules are idempotent, and the rule for
\* agreement codes gives the decimal digits of every numeric identifier
C16_NormalizeIdempotent ==
    (probe.asked /\ probe.fn = "normalize") =>
        /\ probe.twice = probe.once
        /\ (probe.rule = "convenio" /\ notna(probe.x) /\ float_of(probe.x).ok)
              => probe.once = DecimalStr(float_of(probe.x).v)

\* the centre code '1.01E+2' has been normalized and is still '1.01E+2'
C16_Witness ==
    /\ probe.asked /\ probe.fn = "normalize"
    /\ probe.rule = "centro"
    /\ probe.x = CStr("1.01E+2")
    /\ probe.once = "1.01E+2"

C18_LoadersDegradeToEmpty ==
    probe.asked /\ probe.fn \in {"Centros", "Trabajadores", "tarifas_incidencias", "cuenta_motivos"} =>
        LET required == CASE probe.fn = "Centros" -> {"cod_centro_preferente", "nombre_jefe_ope"}
                          [] probe.fn = "Trabajadores" -> {"nombre_empleado"}
                          [] probe.fn = "tarifas_incidencias" -> {"Descripcion", "cod_convenio", "tarifa_noct"}
                          [] probe.fn = "cuenta_motivos" -> {"Motivo", "desc_cuenta"}
        IN  (~probe.sheet.present \/ ~(required \subseteq probe.sheet.columns)) =>
                /\ probe.result.raises = ""
                /\ probe.result.empty
                /\ probe.result.surfaced

\* the part of C18 that holds: a loader whose sheet is missing ends without an
\* exception, empty, with the error shown; so does the Centers loader without
\* its code column; and no other loader raises for a missing column
C18_MissingSheetDegrades ==
    probe.asked /\ probe.fn \in {"Centros", "Trabajadores", "tarifas_incidencias", "cuenta_motivos"} =>
        /\ ~probe.sheet.present =>
              (probe.result.raises = "" /\ probe.result.empty /\ probe.result.surfaced)
        /\ (probe.fn = "Centros" /\ probe.sheet.rows # <<>>
            /\ "cod_centro_preferente" \notin probe.sheet.columns) =>
              (probe.result.raises = "" /\ probe.result.empty /\ probe.result.surfaced)
        /\ probe.fn # "Centros" => probe.result.raises = ""

\* a Centros sheet with a row and no supervisor column has been loaded, and
\* the call ended in a KeyError
C18_Witness ==
    /\ probe.asked /\ probe.fn = "Centros"
    /\ probe.sheet.present
    /\ probe.sheet.rows # <<>>
    /\ "nombre_jefe_ope" \notin probe.sheet.columns
    /\ probe.result.raises = "KeyError"

\* C19: no stale master data is served: in every run the lookups served are
\* derived from the workbook as it is in that run (its current content;
\* nothing but the error message when the file is missing; empty data when it
\* cannot be read), whatever was cached for an earlier content.
C19_NoStaleMasterData ==
    [][last_op'.op \in {"new_session", "run"} =>
          last_op'.served = CASE master'.file = "absent"     -> "error"
                              [] master'.file = "unreadable" -> "empty"
                              [] OTHER                       -> master'.file]_vars

\* the part of C19 that holds: a session that starts is served from the
\* workbook as it is then, its hash is FILE_NOT_FOUND for a missing file and
\* ERROR_HASH for an unreadable one, and a cached value is reused only under
\* the hash of the content it was derived from
C19_FreshAtSessionStart ==
    [][last_op'.op = "new_session" =>
          /\ last_op'.served = CASE master.file = "absent"     -> "error"
                                 [] master.file = "unreadable" -> "empty"
                                 [] OTHER                      -> master.file
          /\ (master.file = "absent") = (master'.data_manager.file_hash = "FILE_NOT_FOUND")
          /\ (master.file = "unreadable") = (master'.data_manager.file_hash = "ERROR_HASH")
          /\ \A e \in master'.cache_data :
                e[2] = IF e[1] = "md5(v1)" THEN "v1" ELSE IF e[1] = "md5(v2)" THEN "v2" ELSE "empty"]_vars

\* a session started on the first content has run again after the workbook
\* was replaced by the second, and was served the first
C19_Witness ==
    /\ last_op.op = "run"
    /\ last_op.workbook = "v2"
    /\ last_op.served = "v1"

C21_TransfersPlainSum ==
    (export_out.status = "listo") =>
        LET V == ValidPositions(incidencias)
        IN  export_out.metricas.total_traslados =
                SumSeq([k \in 1..Cardinality(V) |-> incidencias[NthOf(V, k)].traslados_total])

\* what does hold: the application's transfer total is the sum of
\* traslados_total times coste_hora over the valid records, and the pipeline's
\* is the plain sum over the same records
C21_TransfersTimesCosteHora ==
    (export_out.status = "listo") =>
        LET V == ValidPositions(incidencias)
            pvalid == [k \in 1..Cardinality(V) |->
                         [incidencia_precio |-> incidencias[NthOf(V, k)].incidencia_precio,
                          horas_base |-> incidencias[NthOf(V, k)].incidencia_horas,
                          horas_nocturnidad |-> incidencias[NthOf(V, k)].nocturnidad_horas,
                          traslados_total |-> incidencias[NthOf(V, k)].traslados_total,
                          categoria |-> incidencias[NthOf(V, k)].categoria,
                          cod_reg_convenio |-> incidencias[NthOf(V, k)].cod_reg_convenio]]
        IN  /\ export_out.metricas.total_traslados =
                SumSeq([k \in 1..Cardinality(V) |->
                    incidencias[NthOf(V, k)].traslados_total * incidencias[NthOf(V, k)].coste_hora])
            /\ pipeline_calculate_metrics(pvalid, tarifa_lookup, 13195).total_traslados =
                SumSeq([k \in 1..Cardinality(V) |-> incidencias[NthOf(V, k)].traslados_total])

\* metrics are shown for a collection with a valid record that has transfers
\* and an hourly cost other than 1
C21_Witness ==
    /\ export_out.status = "listo"
    /\ \E p \in ValidPositions(incidencias) :
          /\ incidencias[p].traslados_total > 0
          /\ incidencias[p].coste_hora > 1

\* C22: in every exported row the base amount (Precio times Cuantia) is in
\* the one account column of the row's reason (73, 72 or 70_71) and the other
\* two are 0; a reason with no account among the three leaves all three at
\* 0; and the night column is the night rate times the night hours whatever
\* the reason's account.
C22_BaseAmountInOneBucket ==
    probe.asked /\ probe.fn = "export" =>
        \A i \in DOMAIN probe.rows :
            LET row    == probe.rows[i]
                base   == row.Precio * row.Cuantia
                cuenta == IF CStr(row.Motivo) \in DOMAIN motivo_to_cuenta(probe.sheet)
                          THEN motivo_to_cuenta(probe.sheet)[CStr(row.Motivo)] ELSE None
                cols   == <<row.73_plus_sustitucion, row.72_incentivos, row.70_71_festivos>>
            IN  /\ cuenta = "73"    => cols = <<base, 0, 0>>
                /\ cuenta = "72"    => cols = <<0, base, 0>>
                /\ cuenta = "70_71" => cols = <<0, 0, base>>
                /\ cuenta \notin {"73", "72", "70_71"} => cols = <<0, 0, 0>>
                /\ row.74_plus_nocturnidad = row.Precio_nocturnidad * row.Cuantia_nocturnidad
                /\ row.Precio_nocturnidad =
                       get_precio_nocturnidad(row.Categoria, row.cod_reg_convenio)

\* a workbook of two rows was written: one with a non-zero base amount in the
\* 73 column only, one whose reason has no account, both with a non-zero
\* night column
C22_Witness ==
    /\ probe.asked /\ probe.fn = "export"
    /\ Len(probe.rows) = 2
    /\ probe.rows[1].73_plus_sustitucion > 0
    /\ probe.rows[1].72_incentivos = 0 /\ probe.rows[1].70_71_festivos = 0
    /\ probe.rows[1].74_plus_nocturnidad > 0
    /\ probe.rows[2].Precio * probe.rows[2].Cuantia > 0
    /\ probe.rows[2].73_plus_sustitucion = 0
    /\ probe.rows[2].72_incentivos = 0 /\ probe.rows[2].70_71_festivos = 0
    /\ probe.rows[2].74_plus_nocturnidad > 0

\* C30: the export and the metrics agree: the sum of Coste_total over the
\* exported rows equals the total_con_ss shown for the same valid records.
C30_ExportAgreesWithMetrics ==
    probe.asked /\ probe.fn = "export" =>
        SumSeq([i \in DOMAIN probe.rows |-> probe.rows[i].Coste_total_x10000])
            = probe.metricas.total_con_ss_x10000

\* what does hold: the two agree on the part that carries the multiplier, and
\* differ by exactly the transfers, which the rows add as they are and the
\* metric adds times coste_hora
C30_AgreeUpToTransfers ==
    probe.asked /\ probe.fn = "export" =>
        /\ SumSeq([i \in DOMAIN probe.rows |->
                      probe.rows[i].Coste_total_x10000 - probe.rows[i].Horas_traslado * 10000])
               = (probe.metricas.total_incidencias + probe.metricas.total_nocturnidad) * 13195
        /\ probe.metricas.total_con_ss_x10000
               - SumSeq([i \in DOMAIN probe.rows |-> probe.rows[i].Coste_total_x10000])
               = SumSeq([i \in DOMAIN probe.rows |->
                      probe.rows[i].Horas_traslado * (probe.rows[i].coste_hora - 1) * 10000])

\* a workbook was written for a record with transfers whose employee has an
\* hourly cost other than 1
C30_Witness ==
    /\ probe.asked /\ probe.fn = "export"
    /\ \E i \in DOMAIN probe.rows :
          /\ probe.rows[i].Horas_traslado > 0
          /\ probe.rows[i].coste_hora > 1
          /\ probe.rows[i].Precio * probe.rows[i].Cuantia > 0

C24_BackupBeforeOverwrite ==
    probe.asked /\ probe.fn = "consolidar" =>
        LET e == probe.env
            r == probe.result
        IN  (e.maestros # "absent" /\ r.maestros # e.maestros) =>
                (e.copy2_backup = "ok" /\ e.maestros \in r.backups)

\* what does hold: the backup is attempted in every run that gets past the
\* folder test, before the script starts, and when its copy completes the
\* prior master is among the backups whatever happens next
C24_BackupAttemptedFirst ==
    probe.asked /\ probe.fn = "consolidar" =>
        LET e == probe.env
            r == probe.result
        IN  /\ (e.periodo_folder /\ e.maestros # "absent" /\ e.copy2_backup = "ok") =>
                   e.maestros \in r.backups
            /\ ~e.periodo_folder => r.backups = {} /\ r.maestros = e.maestros
            /\ e.maestros = "absent" => r.backups = {}

\* the copy of the backup raised, and the existing master was overwritten all
\* the same
C24_Witness ==
    /\ probe.asked /\ probe.fn = "consolidar"
    /\ probe.env.maestros = "old"
    /\ probe.env.copy2_backup = "raises"
    /\ probe.result.exito
    /\ probe.result.maestros = "new"
    /\ probe.result.backups = {}

\* C25: whenever the export section runs on a collection with a record that
\* is not valid, a diagnostic is shown for that record listing exactly the
\* required fields that are empty in it; this holds for every such record,
\* and the fields listed as required are the ones is_valid() checks.
C25_DiagnosticForEveryInvalidRecord ==
    export_out.status \in {"listo", "sin_validas"} =>
        \A p \in DOMAIN incidencias : ~is_valid(incidencias[p]) =>
            /\ export_out.status = "sin_validas"
            /\ p \in DOMAIN export_out.diagnostico
            /\ export_out.diagnostico[p] =
                   {c \in RequiredFields : incidencias[p][c] = None \/ incidencias[p][c] = ""}

\* what does hold: the diagnostic is shown only when no record is valid, for
\* the first three records, and it lists the empty fields among those of
\* is_valid() and the billing period
C25_DiagnosticWhenNoneValid ==
    /\ export_out.status = "listo" => ValidPositions(incidencias) # {}
    /\ export_out.status = "sin_validas" =>
          /\ ValidPositions(incidencias) = {}
          /\ DOMAIN export_out.diagnostico = {p \in DOMAIN incidencias : p <= 3}
          /\ \A p \in DOMAIN export_out.diagnostico :
                export_out.diagnostico[p] =
                    {c \in RequiredFields \cup {"imputacion_nomina"} :
                        incidencias[p][c] = None \/ incidencias[p][c] = ""}

\* the export section offers a workbook for a collection in which a record is
\* not valid, so no diagnostic is on the page
C25_Witness ==
    /\ export_out.status = "listo"
    /\ \E p \in DOMAIN incidencias : ~is_valid(incidencias[p])

\* a press of Consolidar that fails leaves the session's data manager and its
\* records as they were, whatever the files and the script do
FailedConsolidationKeepsSession ==
    \A e \in ConsolidaEnvs, ss \in ConsolidaSessions :
        LET r == sidebar_consolidar(e, ss)
        IN  ~r.exito => /\ r.msg \notin {"", "exito"}
                        /\ r.data_manager = ss.data_manager
                        /\ r.incidencias = ss.incidencias

\* C26: every operation that ends in a reported error or warning (an add
\* with an empty worker name, a bulk add with an empty employee list or no
\* destination, delete-selected with nothing marked, an export with no valid
\* record, a failed consolidation) leaves the loaded lookups and data manager
\* and the collection exactly as they were before it.
C26_ErrorPathsLeaveState ==
    [][/\ last_msg' \in {"warning_sin_destino", "warning_sin_trabajador",
                         "warning_sin_empleados", "warning_sin_marcadas"} =>
             (incidencias' = incidencias /\ master' = master)
       /\ (last_op'.op \in {"rerun", "page"} /\ export_out'.status = "sin_validas") =>
             (incidencias' = incidencias /\ master' = master)
       /\ LET r == add_incidencia(incidencias, "", 1, selected_jefe, "", "101",
                                  selected_imputacion)
          IN  r.incidencias = incidencias /\ r.msg = "warning_sin_trabajador"
       /\ LET r == add_all_employees_from_centro(incidencias, <<>>, selected_jefe,
                                                 "101", "101", selected_imputacion)
          IN  r.incidencias = incidencias /\ r.msg = "warning_sin_empleados"
       /\ FailedConsolidationKeepsSession]_vars

\* a bulk add without a destination has warned, in a session that already
\* holds records
C26_Witness ==
    /\ last_op.op = "add_all"
    /\ last_msg = "warning_sin_destino"
    /\ incidencias # <<>>
    /\ export_out.status = "sin_validas"

\* C27: after any sequence of additions, saves (including saves that drop
\* marked rows), deletions and selection changes, the stored page number p
\* satisfies 1 <= p <= total_pages, where total_pages is max(1, ceil(count /
\* ROWS_PER_PAGE)); so the page shown is not empty when the collection is not.
C27_PageWithinBounds ==
    /\ 1 <= current_page
    /\ current_page <= total_pages(Len(incidencias))
    /\ incidencias # <<>> => incidencias_pagina(incidencias, current_page) # <<>>

\* what does hold: the page number never falls below 1, and a run that starts
\* with the page within bounds ends with it within bounds unless it is a save
\* that drops marked rows
C27_OnlySavesThatDropRowsBreakBounds ==
    [][/\ 1 <= current_page'
       /\ (/\ current_page <= total_pages(Len(incidencias))
           /\ ~(last_op'.op = "save" /\ MarkedRows(last_op'.edited_rows) # {}))
             => current_page' <= total_pages(Len(incidencias'))]_vars

\* a save has dropped every row of the last page: records remain, the stored
\* page is past the last one and the page shown is empty
C27_Witness ==
    /\ last_op.op = "save"
    /\ incidencias # <<>>
    /\ current_page > total_pages(Len(incidencias))
    /\ incidencias_pagina(incidencias, current_page) = <<>>

\* C28: the table shown for editing is never stale: whenever a page is
\* rendered, every cell shown is the current value of the field of the
\* record of that page, after any sequence of additions, page changes, saves
\* and deletions; so saving a page nobody edited changes no record.
C28_TableNeverStale ==
    (Selected /\ incidencias # <<>> /\ table_cache.present) =>
        LET pagina == incidencias_pagina(incidencias, current_page)
        IN  /\ table_cache.df = [i \in DOMAIN pagina |-> to_dict(pagina[i])]
            /\ process_page_changes(incidencias, start_idx_of(current_page),
                                    table_cache.df, selected_jefe).incidencias = incidencias

\* what does hold: the table shown is one whose hash over worker, reason,
\* date, base hours and base price is that of the page, so it agrees with the
\* records of the page on those five fields
C28_TableAgreesOnHashedFields ==
    (Selected /\ incidencias # <<>> /\ table_cache.present) =>
        LET pagina == incidencias_pagina(incidencias, current_page)
        IN  /\ table_cache.hash = get_incidencias_hash(pagina)
            /\ DOMAIN table_cache.df = DOMAIN pagina
            /\ \A i \in DOMAIN pagina :
                  /\ table_cache.df[i].cells["Trabajador"] = CStr(pagina[i].trabajador)
                  /\ table_cache.df[i].cells["Motivo"] = CStr(pagina[i].motivo)
                  /\ table_cache.df[i].cells["Incidencia_horas"] = CNum(pagina[i].incidencia_horas)
                  /\ table_cache.df[i].cells["Incidencia_precio"] = CNum(pagina[i].incidencia_precio)

\* the user has moved to a page whose records hash like those of the page
\* shown before: the table of the other page is shown, and it differs from
\* the records of this page
C28_Witness ==
    /\ last_op.op = "page"
    /\ table_cache.present
    /\ table_cache.hash = get_incidencias_hash(incidencias_pagina(incidencias, current_page))
    /\ \E i \in DOMAIN table_cache.df :
          table_cache.df[i] # to_dict(incidencias_pagina(incidencias, current_page)[i])

====
